---------------------------- MODULE Spec2Model ----------------------------
(***************************************************************************)
(* A model of the avatar factory core:                                     *)
(*   - InstanceManager   (src/factory/instance_manager.py)                 *)
(*   - AvatarEngine      (src/core/avatar_engine.py)                       *)
(*   - RealtimeProxy     (src/core/realtime_proxy.py)                      *)
(* Methods are pure operators on records (an engine record, a proxy        *)
(* record, the manager's dictionaries); the actions of each specification  *)
(* apply them to the state variables.  What the environment decides (a     *)
(* plugin raising, a connection opening in time, a config file missing)    *)
(* is an input of the operator, drawn with \E in the action.               *)
(***************************************************************************)
EXTENDS Integers, Sequences, FiniteSets, TLC

VARIABLES
    max_instances,      \* InstanceManager.max_instances
    instances,          \* InstanceManager.instances: name -> engine
    instance_metadata,  \* InstanceManager.instance_metadata: name -> metadata
    now,                \* logical clock read by datetime.now() in start_session
    call,               \* the last call: operation, arguments, result, logs
    engine,             \* a stand-alone AvatarEngine (SpecEngine)
    proxy,              \* a stand-alone RealtimeProxy (SpecProxy)
    link,               \* the state of the connection proxy.ws stands for
    sender,             \* the caller's thread inside RealtimeProxy.send
    tasks,              \* the calls that have begun and not yet returned
    conns,              \* the connections the proxy has made: conns[ws] is its state
    cleaned_up          \* the plugin objects of engine (their positions) whose
                        \* cleanup has been called since they were made

vars ==
    <<max_instances, instances, instance_metadata, now, call, engine, proxy, link, sender,
      tasks, conns, cleaned_up>>

managerVars == <<max_instances, instances, instance_metadata>>
proxyVars == <<proxy, link, sender>>

(* Bounds of the model *)

MaxCapacity == 2     \* max_instances is drawn from 1..MaxCapacity
MaxClock == 2        \* ticks of the clock in one behaviour
MaxSessions == 1     \* sessions started on one running instance
MaxHistory == 2      \* entries of a session's message history
MaxLoads == 2        \* runs of load_plugins on one engine
MaxQueue == 2        \* messages in a proxy's outbound queue
MaxWire == 3         \* messages a proxy transmits in one behaviour
MaxConnects == 2     \* connections a proxy builds in one behaviour

Names == {"a", "b", "c"}
SessionIds == {"s1"}

(* Dictionaries: functions over a finite set of keys *)

SeqRange(seq) == {seq[k] : k \in 1..Len(seq)}
Put(d, k, v) == [x \in (DOMAIN d) \cup {k} |-> IF x = k THEN v ELSE d[x]]
Del(d, k) == [x \in (DOMAIN d) \ {k} |-> d[x]]
EmptyDict == [x \in {} |-> 0]

(* A metadata dict is a set of <<key, value>> pairs with one value a key.  *)
Keys(md) == {p[1] : p \in md}
DictUpdate(md, other) == {p \in md : p[1] \notin Keys(other)} \cup other

(***************************************************************************)
(* RealtimeProxy (src/core/realtime_proxy.py).  A proxy is a record; ws is *)
(* the number of the WebSocketApp it references (0: None).  wire is the    *)
(* sequence of messages handed successfully to ws.send.                    *)
(***************************************************************************)

NewProxy ==
    [ws |-> 0, is_connected |-> FALSE, message_queue |-> <<>>, wire |-> <<>>,
     message_handlers |-> {}, on_message_callback |-> FALSE]

(* send: queue when not connected; otherwise ws.send, which may raise.     *)
NotConnected(p) == ~p.is_connected

Enqueue(p, message) ==
    [p |-> [p EXCEPT !.message_queue = Append(@, message)], ret |-> FALSE]

Transmit(p, message, ws_ok) ==
    IF ws_ok
    THEN [p |-> [p EXCEPT !.wire = Append(@, message)], ret |-> TRUE]
    ELSE [p |-> p, ret |-> FALSE]

send(p, message, ws_ok) ==
    IF NotConnected(p) THEN Enqueue(p, message) ELSE Transmit(p, message, ws_ok)

(* The loop of _on_open over the queue, from position i on: each message   *)
(* goes through send; oks[i] tells whether ws.send(queue[i]) succeeds.     *)
RECURSIVE FlushFrom(_, _, _)
FlushFrom(p, oks, i) ==
    IF i > Len(p.message_queue) THEN p
    ELSE FlushFrom(send(p, p.message_queue[i], oks[i]).p, oks, i + 1)

OnOpenClear(p) == [p EXCEPT !.message_queue = <<>>]

_on_open(p, oks) ==
    OnOpenClear(FlushFrom([p EXCEPT !.is_connected = TRUE], oks, 1))

_on_close(p) == [p EXCEPT !.is_connected = FALSE]

(* connect: a new WebSocketApp and thread, then a one second grace period; *)
(* outcome "open": _on_open ran within it, "pending": it did not,          *)
(* "error": building or starting the connection raised.                    *)
connect(p, outcome, oks) ==
    IF outcome = "error" THEN [p |-> p, ret |-> FALSE]
    ELSE LET p1 == [p EXCEPT !.ws = @ + 1]
             p2 == IF outcome = "open" THEN _on_open(p1, oks) ELSE p1
         IN  [p |-> p2, ret |-> p2.is_connected]

(* disconnect: ws.close() may raise, and then is_connected is not reset.   *)
disconnect(p, close_ok) ==
    IF p.ws = 0 THEN p
    ELSE IF close_ok THEN [p EXCEPT !.is_connected = FALSE]
    ELSE p

(* register_handler(message_type, handler), and the assignment of the      *)
(* attribute on_message_callback by the owner of the proxy.                *)
register_handler(p, message_type) == [p EXCEPT !.message_handlers = @ \cup {message_type}]
set_on_message_callback(p) == [p EXCEPT !.on_message_callback = TRUE]

(* _on_message(ws, message): frame.parsed is whether json.loads(message)   *)
(* returns a dictionary, frame.type its 'type'; handler_ok is whether the  *)
(* handler of the type returns.  called lists what was called.  Every      *)
(* exception is caught by the handler around the whole body.               *)
_on_message(p, frame, handler_ok) ==
    IF ~frame.parsed THEN [p |-> p, called |-> <<>>]
    ELSE LET handled == frame.type \in p.message_handlers
             first == IF handled THEN <<"handler">> ELSE <<>>
         IN  IF handled /\ ~handler_ok THEN [p |-> p, called |-> first]
             ELSE IF p.on_message_callback
                  THEN [p |-> p, called |-> Append(first, "callback")]
                  ELSE [p |-> p, called |-> first]

(* get_connection_status; the faulty variant reports that a connection    *)
(* was made rather than the flag.                                          *)
get_connection_status_made(p) ==
    [connected |-> p.ws # 0, queued_messages |-> Len(p.message_queue)]

get_connection_status(p) ==
    [connected |-> p.is_connected, queued_messages |-> Len(p.message_queue)]

(***************************************************************************)
(* Plugins.  A plugin is known by its name; what a call of its process or  *)
(* cleanup does is the environment's choice.  The engine tests             *)
(* hasattr(plugin, 'process') and hasattr(plugin, 'cleanup'): "hook" is a  *)
(* duck-typed plugin without process, the others derive from BasePlugin.   *)
(***************************************************************************)

HasProcess(pl) == pl # "hook"
HasCleanup(pl) == TRUE

(* What plugin pl may answer to process(message).                          *)
PluginContent(pl) == IF pl = "rag" THEN "ctx" ELSE IF pl = "tools" THEN "Tool X: result" ELSE "third"
PluginMetadata(pl) == { {}, {<<"plugin", pl>>, <<pl, "n">>} }
Raise == [kind |-> "raise", content |-> "", metadata |-> {}, final |-> FALSE]
None == [kind |-> "none", content |-> "", metadata |-> {}, final |-> FALSE]
Responses(pl) ==
    [kind : {"resp"}, content : {"", PluginContent(pl)}, metadata : PluginMetadata(pl),
     final : BOOLEAN]
Outcomes(pl) == IF HasProcess(pl) THEN {Raise, None} \cup Responses(pl) ELSE {None}

(* The answers of a list of plugins: one outcome for each, from i on.      *)
RECURSIVE OutsFrom(_, _)
OutsFrom(plugins, i) ==
    IF i > Len(plugins) THEN {<<>>}
    ELSE {<<o>> \o rest : o \in Outcomes(plugins[i]), rest \in OutsFrom(plugins, i + 1)}

(* The plugins of the instances of a manager are sent a message that none  *)
(* of them handles: each answers None.                                     *)
NoneOuts(plugins) == [i \in 1..Len(plugins) |-> None]

(***************************************************************************)
(* AvatarEngine._process_through_plugins (src/core/avatar_engine.py).      *)
(* PipelineFrom is the loop from plugin i on: response is the merged       *)
(* response so far, invoked the plugins whose process has been called.     *)
(***************************************************************************)

EmptyResponse == [content |-> "", metadata |-> {}]

(* A faulty variant of the merge of the content: the first content stays. *)
MergeContentFirst(response, o) ==
    IF response.content # "" THEN response.content ELSE o.content

MergeContent(response, o) == IF o.content # "" THEN o.content ELSE response.content
MergeMetadata(response, o) == DictUpdate(response.metadata, o.metadata)
Merge(response, o) ==
    [content |-> MergeContent(response, o), metadata |-> MergeMetadata(response, o)]

(* Faulty variants of the loop's control: an exception ends the loop;     *)
(* a final response does not end it.                                       *)
ContinuesUnlessRaised(o) == o.kind = "none" \/ (o.kind = "resp" /\ ~o.final)
ContinuesAlways(o) == TRUE

(* after plugin i answered o: does the loop go on to plugin i + 1 ?         *)
Continues(o) == o.kind # "resp" \/ ~o.final

(* BasePlugin.__init__ gives every plugin priority 50; "third" stands for   *)
(* a plugin whose class declares a higher one.                             *)
priority(pl) == IF pl = "third" THEN 90 ELSE 50

PluginItemsByPriority(plugins) ==
    CHOOSE f \in [1..Len(plugins) -> 1..Len(plugins)] :
        \A a, b \in 1..Len(plugins) :
            a < b => \/ priority(plugins[f[a]]) > priority(plugins[f[b]])
                     \/ /\ priority(plugins[f[a]]) = priority(plugins[f[b]])
                        /\ f[a] < f[b]

(* self.plugins.items(): the positions of the plugins in the order the     *)
(* loop visits them, which is the order the dictionary was filled in.      *)
PluginItems(plugins) == [k \in 1..Len(plugins) |-> k]

RECURSIVE PipelineFrom(_, _, _, _, _)
PipelineFrom(plugins, outs, k, response, invoked) ==
    IF k > Len(plugins) THEN [response |-> response, invoked |-> invoked]
    ELSE LET i == PluginItems(plugins)[k]
         IN  IF ~HasProcess(plugins[i])
             THEN PipelineFrom(plugins, outs, k + 1, response, invoked)
             ELSE LET o == outs[i]
                      merged == IF o.kind = "resp" THEN Merge(response, o) ELSE response
                      inv == Append(invoked, i)
                  IN  IF Continues(o)
                      THEN PipelineFrom(plugins, outs, k + 1, merged, inv)
                      ELSE [response |-> merged, invoked |-> inv]

_process_through_plugins(plugins, outs) ==
    PipelineFrom(plugins, outs, 1, EmptyResponse, <<>>)

(***************************************************************************)
(* AvatarEngine (src/core/avatar_engine.py).  An engine is a record.  Its  *)
(* config says which plugins the configuration lists and whether it has    *)
(* an azure.openai and an azure.speech section.                            *)
(***************************************************************************)

NoMetrics == [set |-> FALSE, messages_sent |-> 0, messages_received |-> 0, tokens_used |-> 0]
ZeroMetrics == [set |-> TRUE, messages_sent |-> 0, messages_received |-> 0, tokens_used |-> 0]

NoSession ==
    [active |-> FALSE, session_id |-> "None", start_time |-> 0, messages |-> <<>>,
     metrics |-> NoMetrics]

AvatarEngine(cfg) ==
    [config |-> cfg, plugins |-> <<>>, plugin_loads |-> 0,
     realtime_proxy |-> [present |-> FALSE, p |-> NewProxy],
     speech_handler |-> [present |-> FALSE, avatar_connected |-> FALSE],
     session_state |-> NoSession, initialized |-> FALSE]

(* load_plugins: every configured plugin is instantiated and initialized   *)
(* and stored under its name, in the configuration's order.                *)
load_plugins(e) == [e EXCEPT !.plugins = e.config.plugins, !.plugin_loads = @ + 1]

create_avatar(cfg) == load_plugins(AvatarEngine(cfg))

initialize(e) ==
    [load_plugins(e) EXCEPT
        !.realtime_proxy = IF e.config.openai THEN [present |-> TRUE, p |-> NewProxy] ELSE @,
        !.speech_handler = IF e.config.speech
                           THEN [present |-> TRUE, avatar_connected |-> FALSE] ELSE @,
        !.initialized = TRUE]

(* Results of the session operations: a dictionary, or an exception.       *)
Result(kind, status, error, session_id, metrics, response) ==
    [kind |-> kind, status |-> status, error |-> error, session_id |-> session_id,
     metrics |-> metrics, response |-> response]
Error(text) == Result("error", "", text, "None", NoMetrics, EmptyResponse)
Raised == Result("raise", "", "", "None", NoMetrics, EmptyResponse)
Bool(b) == Result("bool", IF b THEN "True" ELSE "False", "", "None", NoMetrics, EmptyResponse)
NoResult == Result("none", "", "", "None", NoMetrics, EmptyResponse)

GeneratedId(t) == "t" \o ToString(t)

NewSession(session_id, t) ==
    [active |-> TRUE, session_id |-> session_id, start_time |-> t, messages |-> <<>>,
     metrics |-> ZeroMetrics]

(* What start_session returns for the engine e it has started a session   *)
(* on: the state of e's components is not consulted.  StartedIfConnected   *)
(* is a faulty variant that reports a component that did not start.        *)
StartedIfConnected(e, session_id) ==
    IF \/ (e.realtime_proxy.present /\ ~e.realtime_proxy.p.is_connected)
       \/ (e.speech_handler.present /\ ~e.speech_handler.avatar_connected)
    THEN Error("Failed to start session")
    ELSE Result("ok", "active", "", session_id, NoMetrics, EmptyResponse)

Started(e, session_id) == Result("ok", "active", "", session_id, NoMetrics, EmptyResponse)

(* start_session(session_id): arg = "None" is the default argument; t is   *)
(* datetime.now(); conn and oks are the outcome of realtime_proxy.connect; *)
(* avatar_ok that of speech_handler.start_avatar; init_ok tells whether    *)
(* initialize() (run when the engine is not initialized) succeeds.         *)
(* The faulty variant start_session_continued keeps the messages and the   *)
(* counters of the session the engine had.                                 *)
start_session_continued(e, arg, t, init_ok, conn, oks, avatar_ok) ==
    IF ~e.initialized /\ ~init_ok THEN [e |-> e, ret |-> Raised]
    ELSE LET e0 == IF e.initialized THEN e ELSE initialize(e)
             session_id == IF arg # "None" THEN arg ELSE GeneratedId(t)
             e1 == [e0 EXCEPT !.session_state =
                        IF @.session_id = "None" THEN NewSession(session_id, t)
                        ELSE [@ EXCEPT !.active = TRUE, !.session_id = session_id,
                                       !.start_time = t]]
         IN  [e |-> e1, ret |-> Started(e1, session_id)]

start_session(e, arg, t, init_ok, conn, oks, avatar_ok) ==
    IF ~e.initialized /\ ~init_ok THEN [e |-> e, ret |-> Raised]
    ELSE LET e0 == IF e.initialized THEN e ELSE initialize(e)
             session_id == IF arg # "None" THEN arg ELSE GeneratedId(t)
             e1 == [e0 EXCEPT !.session_state = NewSession(session_id, t)]
             e2 == IF e1.realtime_proxy.present
                   THEN [e1 EXCEPT !.realtime_proxy.p = connect(@, conn, oks).p]
                   ELSE e1
             e3 == IF e2.speech_handler.present /\ avatar_ok
                   THEN [e2 EXCEPT !.speech_handler.avatar_connected = TRUE]
                   ELSE e2
         IN  [e |-> e3, ret |-> Started(e3, session_id)]

(* process_message(message): content is message['content']; outs[i] is     *)
(* what plugin i answers if its process is called.  The merged response is *)
(* a dictionary with two keys, so `if response:` always takes the branch.  *)
(* Faulty variants: the check of the active flag is left out; a session   *)
(* that has an id counts as active.                                        *)
SessionActiveUnchecked(e) == TRUE
SessionActiveOrStopped(e) == e.session_state.session_id # "None"

SessionActive(e) == e.session_state.active

Truthy(response) == DOMAIN response # {}

UserEntry(content) == [role |-> "user", content |-> content]
AssistantEntry(response) == [role |-> "assistant", content |-> response.content]

CountMessage(metrics) ==
    [metrics EXCEPT !.messages_received = @ + 1, !.messages_sent = @ + 1]

process_message(e, content, outs) ==
    IF ~SessionActive(e)
    THEN [e |-> e, ret |-> Error("No active session"), invoked |-> <<>>]
    ELSE LET e1 == [e EXCEPT !.session_state.messages = Append(@, UserEntry(content))]
             run == _process_through_plugins(e1.plugins, outs)
             e2 == IF Truthy(run.response)
                   THEN [e1 EXCEPT !.session_state.messages =
                                        Append(@, AssistantEntry(run.response))]
                   ELSE e1
             e3 == [e2 EXCEPT !.session_state.metrics = CountMessage(@)]
         IN  [e |-> e3,
              ret |-> Result("ok", "response", "", "None", NoMetrics, run.response),
              invoked |-> run.invoked]

(* The cleanup loop of stop_session, from plugin i on: cleaned are the     *)
(* plugins whose cleanup has been called, raiser is the plugin whose        *)
(* cleanup raises (0: none does).  The exception is caught inside the loop *)
(* and logged.  CleanupAborted is a faulty variant that the exception      *)
(* ends.                                                                   *)
RECURSIVE CleanupAborted(_, _, _, _)
CleanupAborted(plugins, raiser, i, cleaned) ==
    IF i > Len(plugins) THEN cleaned
    ELSE IF ~HasCleanup(plugins[i]) THEN CleanupAborted(plugins, raiser, i + 1, cleaned)
    ELSE IF i = raiser THEN Append(cleaned, i)
    ELSE CleanupAborted(plugins, raiser, i + 1, Append(cleaned, i))

RECURSIVE CleanupIsolated(_, _, _, _)
CleanupIsolated(plugins, raiser, i, cleaned) ==
    IF i > Len(plugins) THEN cleaned
    ELSE IF ~HasCleanup(plugins[i]) THEN CleanupIsolated(plugins, raiser, i + 1, cleaned)
    ELSE LET called == Append(cleaned, i)
         IN  IF i = raiser
             THEN CleanupIsolated(plugins, raiser, i + 1, called)
             ELSE CleanupIsolated(plugins, raiser, i + 1, called)

(* stop_session(): close_ok is whether ws.close() returns, raiser the       *)
(* plugin whose cleanup raises; the session's duration is left out of the  *)
(* final metrics.                                                          *)
stop_session(e, close_ok, raiser) ==
    IF ~SessionActive(e)
    THEN [e |-> e, ret |-> Error("No active session"), cleaned |-> <<>>]
    ELSE LET e1 == IF e.realtime_proxy.present
                   THEN [e EXCEPT !.realtime_proxy.p = disconnect(@, close_ok)]
                   ELSE e
             e2 == IF e1.speech_handler.present
                   THEN [e1 EXCEPT !.speech_handler.avatar_connected = FALSE]
                   ELSE e1
             e3 == [e2 EXCEPT !.session_state.active = FALSE]
         IN  [e |-> e3,
              ret |-> Result("ok", "stopped", "", e.session_state.session_id,
                             e.session_state.metrics, EmptyResponse),
              cleaned |-> CleanupIsolated(e.plugins, raiser, 1, <<>>)]

get_status(e) ==
    [initialized |-> e.initialized, active |-> e.session_state.active,
     session_id |-> e.session_state.session_id, metrics |-> e.session_state.metrics]

get_conversation_history(e) == e.session_state.messages

(***************************************************************************)
(* InstanceManager (src/factory/instance_manager.py).  m is the manager's  *)
(* state: instances (name -> engine), instance_metadata (name -> record).  *)
(* A call also tells how many AvatarEngine objects it constructed.         *)
(***************************************************************************)

(* The configuration files under instances/<name>/.  The instances of the  *)
(* manager have no azure.openai and no azure.speech section: engines with  *)
(* a realtime proxy and a speech handler are those of SpecEngine.          *)
InstanceConfig(n) ==
    IF n = "a" THEN [plugins |-> <<"rag", "tools">>, openai |-> FALSE, speech |-> FALSE]
    ELSE IF n = "b" THEN [plugins |-> <<"hook", "tools">>, openai |-> FALSE, speech |-> FALSE]
    ELSE [plugins |-> <<>>, openai |-> FALSE, speech |-> FALSE]

Manager(i, md) == [instances |-> i, instance_metadata |-> md]

Running(m) == DOMAIN m.instances

(* Faulty variants of the two checks of start_instance: no check of the    *)
(* running set; a limit that lets one instance too many in; a limit that   *)
(* counts the metadata entries, stopped instances included.                *)
AlreadyRunningUnchecked(m, n) == FALSE
LimitReachedOffByOne(m) == Cardinality(Running(m)) > max_instances
LimitCountsMetadata(m) == Cardinality(DOMAIN m.instance_metadata) >= max_instances

AlreadyRunning(m, n) == n \in Running(m)

LimitReached(m) == Cardinality(Running(m)) >= max_instances

StartedMetadata == [status |-> "running", sessions |-> 0, stopped_at |-> FALSE]

(* A faulty variant of start_instance: the engine is stored before it is   *)
(* initialized, and stays stored when initialize raises.                   *)
start_instance_stored_early(m, n, fail) ==
    IF AlreadyRunning(m, n) THEN [m |-> m, ret |-> TRUE, constructed |-> 0]
    ELSE IF LimitReached(m) THEN [m |-> m, ret |-> FALSE, constructed |-> 0]
    ELSE IF fail = "create" THEN [m |-> m, ret |-> FALSE, constructed |-> 0]
    ELSE IF fail = "init"
    THEN [m |-> Manager(Put(m.instances, n, create_avatar(InstanceConfig(n))),
                        Put(m.instance_metadata, n, StartedMetadata)),
          ret |-> FALSE, constructed |-> 1]
    ELSE [m |-> Manager(Put(m.instances, n, initialize(create_avatar(InstanceConfig(n)))),
                        Put(m.instance_metadata, n, StartedMetadata)),
          ret |-> TRUE, constructed |-> 1]

(* start_instance(instance_name): fail is where an exception is raised:    *)
(* "create" in AvatarFactory.create_avatar (before the engine's            *)
(* construction), "init" in avatar.initialize(), "none" nowhere.           *)
start_instance(m, n, fail) ==
    IF AlreadyRunning(m, n) THEN [m |-> m, ret |-> TRUE, constructed |-> 0]
    ELSE IF LimitReached(m) THEN [m |-> m, ret |-> FALSE, constructed |-> 0]
    ELSE IF fail = "create" THEN [m |-> m, ret |-> FALSE, constructed |-> 0]
    ELSE IF fail = "init" THEN [m |-> m, ret |-> FALSE, constructed |-> 1]
    ELSE [m |-> Manager(Put(m.instances, n, initialize(create_avatar(InstanceConfig(n)))),
                        Put(m.instance_metadata, n, StartedMetadata)),
          ret |-> TRUE, constructed |-> 1]

(* The cleanup loop of stop_instance, from plugin i on: raiser is the first *)
(* plugin whose cleanup raises (0: none does), and it ends the loop.       *)
RECURSIVE CleanupLoop(_, _, _, _)
CleanupLoop(plugins, raiser, i, cleaned) ==
    IF i > Len(plugins) THEN [cleaned |-> cleaned, raised |-> FALSE]
    ELSE IF ~HasCleanup(plugins[i]) THEN CleanupLoop(plugins, raiser, i + 1, cleaned)
    ELSE IF i = raiser THEN [cleaned |-> Append(cleaned, i), raised |-> TRUE]
    ELSE CleanupLoop(plugins, raiser, i + 1, Append(cleaned, i))

(* The metadata of a stopped instance.  StoppedMetadataUnmarked is a       *)
(* faulty variant that records the time and leaves the status.             *)
StoppedMetadataUnmarked(md) == [md EXCEPT !.stopped_at = TRUE]

StoppedMetadata(md) == [md EXCEPT !.status = "stopped", !.stopped_at = TRUE]

(* stop_instance(instance_name): the engine's session is stopped in place  *)
(* before the cleanup loop; an exception of the loop is caught by the      *)
(* handler around the whole body, which returns False.                     *)
(* The body of stop_instance for a running instance.  avatar is the       *)
(* engine object as the call leaves it.  StopRunningSessionKept is a       *)
(* faulty variant that removes the engine without stopping its session.    *)
StopRunningSessionKept(m, n, close_ok, raiser) ==
    LET avatar == m.instances[n]
        loop == CleanupLoop(avatar.plugins, raiser, 1, <<>>)
    IN  IF loop.raised
        THEN [m |-> m, ret |-> FALSE, cleaned |-> loop.cleaned,
              session_cleaned |-> <<>>, avatar |-> avatar]
        ELSE [m |-> Manager(Del(m.instances, n),
                            IF n \in DOMAIN m.instance_metadata
                            THEN [m.instance_metadata EXCEPT ![n] = StoppedMetadata(@)]
                            ELSE m.instance_metadata),
              ret |-> TRUE, cleaned |-> loop.cleaned,
              session_cleaned |-> <<>>, avatar |-> avatar]

StopRunning(m, n, close_ok, raiser) ==
    LET avatar == m.instances[n]
        stopped == stop_session(avatar, close_ok, raiser)
        m1 == [m EXCEPT !.instances[n] = stopped.e]
        loop == CleanupLoop(avatar.plugins, raiser, 1, <<>>)
    IN  IF loop.raised
        THEN [m |-> m1, ret |-> FALSE, cleaned |-> loop.cleaned,
              session_cleaned |-> stopped.cleaned, avatar |-> stopped.e]
        ELSE [m |-> Manager(Del(m1.instances, n),
                            IF n \in DOMAIN m1.instance_metadata
                            THEN [m1.instance_metadata EXCEPT ![n] = StoppedMetadata(@)]
                            ELSE m1.instance_metadata),
              ret |-> TRUE, cleaned |-> loop.cleaned,
              session_cleaned |-> stopped.cleaned, avatar |-> stopped.e]

(* A faulty variant of stop_instance: stopping a name that is not running  *)
(* counts as done, and its metadata is marked stopped.                     *)
stop_instance_unchecked(m, n, close_ok, raiser) ==
    IF n \notin Running(m)
    THEN [m |-> Manager(m.instances,
                        IF n \in DOMAIN m.instance_metadata
                        THEN [m.instance_metadata EXCEPT ![n] = StoppedMetadata(@)]
                        ELSE Put(m.instance_metadata, n, StoppedMetadata(StartedMetadata))),
          ret |-> TRUE, cleaned |-> <<>>, session_cleaned |-> <<>>]
    ELSE StopRunning(m, n, close_ok, raiser)

stop_instance(m, n, close_ok, raiser) ==
    IF n \notin Running(m)
    THEN [m |-> m, ret |-> FALSE, cleaned |-> <<>>, session_cleaned |-> <<>>]
    ELSE StopRunning(m, n, close_ok, raiser)

(* A faulty variant of restart_instance: a failed stop ends the restart.   *)
restart_instance_fail_fast(m, n, close_ok, raiser, fail) ==
    LET stopped == stop_instance(m, n, close_ok, raiser)
    IN  IF n \in Running(m) /\ ~stopped.ret
        THEN [m |-> stopped.m, ret |-> FALSE, constructed |-> 0]
        ELSE start_instance(stopped.m, n, fail)

(* restart_instance(instance_name): the result of the stop is not looked at. *)
restart_instance(m, n, close_ok, raiser, fail) ==
    LET stopped == IF n \in Running(m) THEN stop_instance(m, n, close_ok, raiser).m ELSE m
    IN  start_instance(stopped, n, fail)

(* shutdown_all(): one stop_instance for every name of instances at the    *)
(* time of the call, gathered.  The stops work on different entries, so    *)
(* the order they interleave in does not show in the result; StopAll takes *)
(* them one after another.  close_ok[n] and raisers[n] are the inputs of   *)
(* the stop of n; outcomes is what gather collects, which shutdown_all     *)
(* drops: it has no return statement.                                      *)
RECURSIVE StopAll(_, _, _, _, _)
StopAll(m, todo, close_ok, raisers, outcomes) ==
    IF todo = {} THEN [m |-> m, outcomes |-> outcomes]
    ELSE LET n == CHOOSE x \in todo : TRUE
             r == stop_instance(m, n, close_ok[n], raisers[n])
         IN  StopAll(r.m, todo \ {n}, close_ok, raisers, outcomes \cup {<<n, r.ret>>})

shutdown_all(m, close_ok, raisers) ==
    LET all == StopAll(m, Running(m), close_ok, raisers, {})
    IN  [m |-> all.m, ret |-> NoResult, outcomes |-> all.outcomes]

(* start_session(instance_name, session_id): starts the instance first     *)
(* when it is not running.                                                 *)
manager_start_session(m, n, arg, t, fail, conn, avatar_ok) ==
    LET started == IF n \in Running(m) THEN [m |-> m, ret |-> TRUE, constructed |-> 0]
                   ELSE start_instance(m, n, fail)
    IN  IF ~started.ret
        THEN [m |-> started.m, ret |-> Error("Failed to start instance"),
              constructed |-> started.constructed]
        ELSE LET s == start_session(started.m.instances[n], arg, t, TRUE, conn, <<>>,
                                    avatar_ok)
                 m1 == [started.m EXCEPT !.instances[n] = s.e]
                 m2 == IF n \in DOMAIN m1.instance_metadata
                       THEN [m1 EXCEPT !.instance_metadata[n].sessions = @ + 1]
                       ELSE m1
             IN  [m |-> m2, ret |-> s.ret, constructed |-> started.constructed]

manager_stop_session(m, n, close_ok, raiser) ==
    IF n \notin Running(m)
    THEN [m |-> m, ret |-> Error("Instance not running"), cleaned |-> <<>>]
    ELSE LET s == stop_session(m.instances[n], close_ok, raiser)
         IN  [m |-> [m EXCEPT !.instances[n] = s.e], ret |-> s.ret, cleaned |-> s.cleaned]

manager_process_message(m, n, content, outs) ==
    IF n \notin Running(m)
    THEN [m |-> m, ret |-> Error("Instance not running"), invoked |-> <<>>]
    ELSE IF ~SessionActive(m.instances[n])
    THEN [m |-> m, ret |-> Error("No active session"), invoked |-> <<>>]
    ELSE LET s == process_message(m.instances[n], content, outs)
         IN  [m |-> [m EXCEPT !.instances[n] = s.e], ret |-> s.ret, invoked |-> s.invoked]

(***************************************************************************)
(* The calls on the manager, one after another (Spec).                     *)
(***************************************************************************)

M == Manager(instances, instance_metadata)

SetManager(m) ==
    /\ instances' = m.instances
    /\ instance_metadata' = m.instance_metadata

Fails == {"none", "create", "init"}
ConnectOutcomes == {"open", "pending", "error"}

(* The record of a call: the operation, the instance it names (for a call  *)
(* on a proxy: the message or the outcome it is given), its result,        *)
(* the answers of the plugins (outs) and the plugins whose process         *)
(* (invoked) or cleanup (cleaned) it called, the engines it constructed,   *)
(* and for shutdown_all what each of its stops returned (outcomes).        *)
Call(op, name, outs, ret, invoked, cleaned, constructed) ==
    [op |-> op, name |-> name, outs |-> outs, ret |-> ret, invoked |-> invoked,
     cleaned |-> cleaned, constructed |-> constructed, outcomes |-> {}]

NoCall == Call("none", "", <<>>, NoResult, <<>>, <<>>, 0)

NoLink == "none"
NoTasks == {}
NoConns == <<>>
Idle == [pc |-> "idle", message |-> ""]
Queueing(message) == [pc |-> "queue", message |-> message]

IdleEngine == AvatarEngine([plugins |-> <<>>, openai |-> FALSE, speech |-> FALSE])

(* the inputs a call consults in the state it is made in *)
FailsFor(n) == IF n \in DOMAIN instances \/ LimitReached(M) THEN {"none"} ELSE Fails
RaisersFor(n) ==
    IF n \in DOMAIN instances
    THEN {0} \cup {i \in 1..Len(instances[n].plugins) : HasCleanup(instances[n].plugins[i])}
    ELSE {0}
CloseFor(e) ==
    IF SessionActive(e) /\ e.realtime_proxy.present /\ e.realtime_proxy.p.ws # 0
    THEN BOOLEAN ELSE {TRUE}
CloseForName(n) == IF n \in DOMAIN instances THEN CloseFor(instances[n]) ELSE {TRUE}
ConnectFor(cfg) == IF cfg.openai THEN ConnectOutcomes ELSE {"error"}
AvatarFor(cfg) == IF cfg.speech THEN BOOLEAN ELSE {FALSE}

StartInstance(n) ==
    /\ \E fail \in FailsFor(n) :
         LET r == start_instance(M, n, fail)
         IN  /\ SetManager(r.m)
             /\ call' = Call("start_instance", n, <<>>, Bool(r.ret), <<>>, <<>>, r.constructed)
    /\ UNCHANGED <<max_instances, now, engine, proxyVars, tasks, conns, cleaned_up>>

StopInstance(n) ==
    /\ \E close_ok \in CloseForName(n), raiser \in RaisersFor(n) :
         LET r == stop_instance(M, n, close_ok, raiser)
         IN  /\ SetManager(r.m)
             /\ call' = Call("stop_instance", n, <<>>, Bool(r.ret), <<>>,
                             r.session_cleaned \o r.cleaned, 0)
    /\ UNCHANGED <<max_instances, now, engine, proxyVars, tasks, conns, cleaned_up>>

RestartInstance(n) ==
    /\ \E close_ok \in CloseForName(n), raiser \in RaisersFor(n), fail \in Fails :
         LET r == restart_instance(M, n, close_ok, raiser, fail)
         IN  /\ SetManager(r.m)
             /\ call' = Call("restart_instance", n, <<>>, Bool(r.ret), <<>>, <<>>,
                             r.constructed)
    /\ UNCHANGED <<max_instances, now, engine, proxyVars, tasks, conns, cleaned_up>>

StartSession(n) ==
    /\ n \in DOMAIN instances => instance_metadata[n].sessions < MaxSessions
    /\ \E arg \in SessionIds, fail \in FailsFor(n),
          conn \in ConnectFor(InstanceConfig(n)), avatar_ok \in AvatarFor(InstanceConfig(n)) :
         LET r == manager_start_session(M, n, arg, now, fail, conn, avatar_ok)
         IN  /\ SetManager(r.m)
             /\ call' = Call("start_session", n, <<>>, r.ret, <<>>, <<>>, r.constructed)
    /\ UNCHANGED <<max_instances, now, engine, proxyVars, tasks, conns, cleaned_up>>

StopSession(n) ==
    /\ \E close_ok \in CloseForName(n), raiser \in RaisersFor(n) :
         LET r == manager_stop_session(M, n, close_ok, raiser)
         IN  /\ SetManager(r.m)
             /\ call' = Call("stop_session", n, <<>>, r.ret, <<>>, r.cleaned, 0)
    /\ UNCHANGED <<max_instances, now, engine, proxyVars, tasks, conns, cleaned_up>>

ProcessMessage(n) ==
    /\ (n \in DOMAIN instances /\ SessionActive(instances[n]))
          => Len(instances[n].session_state.messages) + 2 <= MaxHistory
    /\ LET outs == IF n \in DOMAIN instances THEN NoneOuts(instances[n].plugins) ELSE <<>>
             r == manager_process_message(M, n, "hello", outs)
         IN  /\ SetManager(r.m)
             /\ call' = Call("process_message", n, outs, r.ret, r.invoked, <<>>, 0)
    /\ UNCHANGED <<max_instances, now, engine, proxyVars, tasks, conns, cleaned_up>>

AllRaisers ==
    {f \in [Names -> UNION {RaisersFor(n) : n \in Names}] :
        \A n \in Names : f[n] \in RaisersFor(n)}
AllCloses ==
    {f \in [Names -> BOOLEAN] : \A n \in Names : f[n] \in CloseForName(n)}

ShutdownAll ==
    /\ \E close_ok \in AllCloses, raisers \in AllRaisers :
         LET r == shutdown_all(M, close_ok, raisers)
         IN  /\ SetManager(r.m)
             /\ call' = [Call("shutdown_all", "", <<>>, r.ret, <<>>, <<>>, 0)
                             EXCEPT !.outcomes = r.outcomes]
    /\ UNCHANGED <<max_instances, now, engine, proxyVars, tasks, conns, cleaned_up>>

Init ==
    /\ max_instances \in 1..MaxCapacity
    /\ instances = EmptyDict
    /\ instance_metadata = EmptyDict
    /\ now = 1
    /\ call = NoCall
    /\ engine = IdleEngine
    /\ proxy = NewProxy
    /\ link = NoLink
    /\ sender = Idle
    /\ tasks = NoTasks
    /\ conns = NoConns
    /\ cleaned_up = {}

Next ==
    \/ \E n \in Names :
          \/ StartInstance(n)
          \/ StopInstance(n)
          \/ RestartInstance(n)
          \/ StartSession(n)
          \/ StopSession(n)
          \/ ProcessMessage(n)
    \/ ShutdownAll

Spec == Init /\ [][Next]_vars

(***************************************************************************)
(* The calls on one engine, one after another (SpecEngine): an engine made *)
(* by AvatarFactory.create_avatar and used directly, as the README of a    *)
(* generated instance shows.                                               *)
(***************************************************************************)

PluginLists == {<<>>, <<"rag", "tools", "third">>, <<"rag", "hook", "tools">>}

EngineConfigs ==
    {[plugins |-> pl, openai |-> b, speech |-> b] : pl \in PluginLists, b \in BOOLEAN}

EngineCall(op, outs, ret, invoked, cleaned) == Call(op, "", outs, ret, invoked, cleaned, 0)

(* load_plugins makes and initializes new plugin objects: none of them has *)
(* been cleaned up.  before and after are the engine around a call.        *)
AfterLoad(before, after, cleaned) ==
    IF after.plugin_loads # before.plugin_loads THEN {} ELSE cleaned

EngineInitialize ==
    /\ engine.plugin_loads < MaxLoads
    /\ \E init_ok \in BOOLEAN :
         /\ engine' = IF init_ok THEN initialize(engine) ELSE engine
         /\ call' = EngineCall("initialize", <<>>, IF init_ok THEN NoResult ELSE Raised,
                               <<>>, <<>>)
    /\ cleaned_up' = AfterLoad(engine, engine', cleaned_up)
    /\ UNCHANGED <<managerVars, now, proxyVars, tasks, conns>>

EngineStartSession ==
    /\ now <= MaxClock
    /\ \E arg \in SessionIds \cup {"None"},
          init_ok \in IF engine.initialized THEN {TRUE} ELSE BOOLEAN,
          conn \in ConnectFor(engine.config), avatar_ok \in AvatarFor(engine.config) :
         LET r == start_session(engine, arg, now, init_ok, conn, <<>>, avatar_ok)
         IN  /\ engine' = r.e
             /\ call' = EngineCall("start_session", <<>>, r.ret, <<>>, <<>>)
    /\ now' = now + 1
    /\ cleaned_up' = AfterLoad(engine, engine', cleaned_up)
    /\ UNCHANGED <<managerVars, proxyVars, tasks, conns>>

EngineProcessMessage ==
    /\ SessionActive(engine) => Len(engine.session_state.messages) + 2 <= MaxHistory
    /\ \E outs \in IF SessionActive(engine) THEN OutsFrom(engine.plugins, 1) ELSE {<<>>} :
         LET r == process_message(engine, "hello", outs)
         IN  /\ engine' = r.e
             /\ call' = EngineCall("process_message", outs, r.ret, r.invoked, <<>>)
    /\ UNCHANGED <<managerVars, now, proxyVars, tasks, conns, cleaned_up>>

CleanupOuts(plugins, raiser) ==
    [i \in 1..Len(plugins) |-> IF i = raiser THEN Raise ELSE None]

EngineStopSession ==
    /\ \E close_ok \in CloseFor(engine),
          raiser \in IF SessionActive(engine) THEN 0..Len(engine.plugins) ELSE {0} :
         LET r == stop_session(engine, close_ok, raiser)
         IN  /\ engine' = r.e
             /\ call' = EngineCall("stop_session",
                                   IF SessionActive(engine)
                                   THEN CleanupOuts(engine.plugins, raiser) ELSE <<>>,
                                   r.ret, <<>>, r.cleaned)
             /\ cleaned_up' = cleaned_up \cup SeqRange(r.cleaned)
    /\ UNCHANGED <<managerVars, now, proxyVars, tasks, conns>>

InitEngine ==
    /\ max_instances = MaxCapacity
    /\ instances = EmptyDict
    /\ instance_metadata = EmptyDict
    /\ now = 1
    /\ call = NoCall
    /\ engine \in {create_avatar(cfg) : cfg \in EngineConfigs}
    /\ proxy = NewProxy
    /\ link = NoLink
    /\ sender = Idle
    /\ tasks = NoTasks
    /\ conns = NoConns
    /\ cleaned_up = {}

NextEngine ==
    \/ EngineInitialize
    \/ EngineStartSession
    \/ EngineProcessMessage
    \/ EngineStopSession

SpecEngine == InitEngine /\ [][NextEngine]_vars

(***************************************************************************)
(* The calls and callbacks of one proxy (SpecProxy).                       *)
(* link is the state of the connection that proxy.ws stands for: "none",   *)
(* "opening" (the thread runs, the socket is not open yet), "open",        *)
(* "closed".  ws.send can succeed on an open connection only.              *)
(* The callbacks _on_open and _on_close run on the thread of the           *)
(* connection, send on the caller's thread, and no lock orders them: a     *)
(* send that has read is_connected = False (ProxySend) appends to the      *)
(* queue in a later step (ProxySendQueued), and the callbacks may run in   *)
(* between.                                                                *)
(***************************************************************************)

Messages == {"m1", "m2"}

SendOk == IF link = "open" THEN BOOLEAN ELSE {FALSE}
FlushOks(p) == [1..Len(p.message_queue) -> BOOLEAN]

ProxyCall(op, message, ret) == Call(op, message, <<>>, ret, <<>>, <<>>, 0)

ProxySend ==
    /\ sender = Idle
    /\ Len(proxy.message_queue) < MaxQueue
    /\ Len(proxy.wire) < MaxWire
    /\ \E message \in Messages, ws_ok \in SendOk :
         IF NotConnected(proxy)
         THEN /\ sender' = Queueing(message)
              /\ UNCHANGED <<proxy, call>>
         ELSE LET r == Transmit(proxy, message, ws_ok)
              IN  /\ proxy' = r.p
                  /\ call' = ProxyCall("send", message, Bool(r.ret))
                  /\ UNCHANGED sender
    /\ UNCHANGED <<managerVars, now, engine, link, tasks, conns, cleaned_up>>

ProxySendQueued ==
    /\ sender.pc = "queue"
    /\ LET r == Enqueue(proxy, sender.message)
       IN  /\ proxy' = r.p
           /\ call' = ProxyCall("send", sender.message, Bool(r.ret))
    /\ sender' = Idle
    /\ UNCHANGED <<managerVars, now, engine, link, tasks, conns, cleaned_up>>

ProxyConnect ==
    /\ proxy.ws < MaxConnects
    /\ \E outcome \in ConnectOutcomes, oks \in FlushOks(proxy) :
         LET r == connect(proxy, outcome, oks)
         IN  /\ proxy' = r.p
             /\ link' = IF outcome = "open" THEN "open"
                        ELSE IF outcome = "pending" THEN "opening" ELSE link
             /\ call' = ProxyCall("connect", outcome, Bool(r.ret))
    /\ UNCHANGED <<managerVars, now, engine, sender, tasks, conns, cleaned_up>>

(* the connection opens after connect has returned *)
ProxyOnOpen ==
    /\ link = "opening"
    /\ \E oks \in FlushOks(proxy) :
         /\ proxy' = _on_open(proxy, oks)
         /\ call' = ProxyCall("_on_open", "", NoResult)
    /\ link' = "open"
    /\ UNCHANGED <<managerVars, now, engine, sender, tasks, conns, cleaned_up>>

(* _on_open runs on the connection's thread while a send on the caller's  *)
(* thread has read is_connected = False and not yet appended: nothing      *)
(* orders the append and the steps of _on_open.  The append before the     *)
(* loop ends, or after the clear, gives what ProxySendQueued and           *)
(* ProxyOnOpen give one after the other; here it falls between the loop    *)
(* and message_queue.clear(), which removes the message just appended.     *)
ProxyOnOpenDuringSend ==
    /\ link = "opening"
    /\ sender.pc = "queue"
    /\ \E oks \in FlushOks(proxy) :
         LET flushed == FlushFrom([proxy EXCEPT !.is_connected = TRUE], oks, 1)
             r == Enqueue(flushed, sender.message)
         IN  /\ proxy' = OnOpenClear(r.p)
             /\ call' = ProxyCall("send", sender.message, Bool(r.ret))
    /\ link' = "open"
    /\ sender' = Idle
    /\ UNCHANGED <<managerVars, now, engine, tasks, conns, cleaned_up>>

(* the connection fails to open, or is closed by the peer *)
ProxyOnClose ==
    /\ link \in {"opening", "open"}
    /\ proxy' = _on_close(proxy)
    /\ link' = "closed"
    /\ call' = ProxyCall("_on_close", "", NoResult)
    /\ UNCHANGED <<managerVars, now, engine, sender, tasks, conns, cleaned_up>>

ProxyDisconnect ==
    /\ \E close_ok \in IF proxy.ws # 0 THEN BOOLEAN ELSE {TRUE} :
         /\ proxy' = disconnect(proxy, close_ok)
         /\ link' = IF proxy.ws # 0 /\ close_ok /\ link # "none" THEN "closed" ELSE link
    /\ call' = ProxyCall("disconnect", "", NoResult)
    /\ UNCHANGED <<managerVars, now, engine, sender, tasks, conns, cleaned_up>>

FrameTypes == {"audio", "text"}
Frames == [parsed : BOOLEAN, type : FrameTypes]

ProxyRegisterHandler ==
    /\ \E message_type \in {"audio"} :
         /\ message_type \notin proxy.message_handlers
         /\ proxy' = register_handler(proxy, message_type)
         /\ call' = ProxyCall("register_handler", message_type, NoResult)
    /\ UNCHANGED <<managerVars, now, engine, link, sender, tasks, conns, cleaned_up>>

ProxySetCallback ==
    /\ ~proxy.on_message_callback
    /\ proxy' = set_on_message_callback(proxy)
    /\ call' = ProxyCall("on_message_callback", "", NoResult)
    /\ UNCHANGED <<managerVars, now, engine, link, sender, tasks, conns, cleaned_up>>

(* a frame arrives on the open connection *)
ProxyOnMessage ==
    /\ link = "open"
    /\ \E frame \in Frames, handler_ok \in BOOLEAN :
         LET r == _on_message(proxy, frame, handler_ok)
         IN  /\ proxy' = r.p
             /\ call' = [ProxyCall("_on_message",
                                   IF frame.parsed THEN frame.type ELSE "", NoResult)
                             EXCEPT !.invoked = r.called]
    /\ UNCHANGED <<managerVars, now, engine, link, sender, tasks, conns, cleaned_up>>

InitProxy ==
    /\ max_instances = MaxCapacity
    /\ instances = EmptyDict
    /\ instance_metadata = EmptyDict
    /\ now = 1
    /\ call = NoCall
    /\ engine = IdleEngine
    /\ proxy = NewProxy
    /\ link = NoLink
    /\ sender = Idle
    /\ tasks = NoTasks
    /\ conns = NoConns
    /\ cleaned_up = {}

NextProxy ==
    \/ ProxySend
    \/ ProxySendQueued
    \/ ProxyConnect
    \/ ProxyOnOpen
    \/ ProxyOnOpenDuringSend
    \/ ProxyOnClose
    \/ ProxyDisconnect
    \/ ProxyRegisterHandler
    \/ ProxySetCallback
    \/ ProxyOnMessage

SpecProxy == InitProxy /\ [][NextProxy]_vars

(***************************************************************************)
(* The query operations (SpecQueries).  get_status, get_conversation_-     *)
(* history and get_connection_status read the state they are called in;    *)
(* they are called here on an engine and a proxy in states that calls made *)
(* after construction lead to.                                             *)
(***************************************************************************)

QueryEngines ==
    LET fresh == {create_avatar(cfg) : cfg \in EngineConfigs}
        started == UNION {{start_session(e, "s1", 1, TRUE, conn, <<>>, avatar_ok).e :
                              conn \in ConnectFor(e.config),
                              avatar_ok \in AvatarFor(e.config)} : e \in fresh}
        talked == {process_message(e, "hello", NoneOuts(e.plugins)).e : e \in started}
        stopped == {stop_session(e, TRUE, 0).e : e \in started \cup talked}
    IN  fresh \cup {initialize(e) : e \in fresh} \cup started \cup talked \cup stopped

LinkAfter(outcome) ==
    IF outcome = "open" THEN "open" ELSE IF outcome = "pending" THEN "opening" ELSE NoLink

(* pairs of a proxy and the state of its connection *)
QueryProxies ==
    LET queued == {NewProxy, Enqueue(NewProxy, "m1").p,
                   Enqueue(Enqueue(NewProxy, "m1").p, "m2").p}
        connected == UNION {{<<connect(p, outcome, oks).p, LinkAfter(outcome)>> :
                                outcome \in ConnectOutcomes, oks \in FlushOks(p)} :
                            p \in queued}
        live == {c \in connected : c[2] # NoLink}
        sent == {<<send(c[1], "m1", TRUE).p, c[2]>> : c \in live}
        closed == {<<_on_close(c[1]), "closed">> : c \in live \cup sent}
    IN  connected \cup sent \cup closed

QueryCall(op, ret) == [Call(op, "", <<>>, NoResult, <<>>, <<>>, 0) EXCEPT !.ret = ret]

EngineGetStatus ==
    /\ call' = QueryCall("get_status", get_status(engine))
    /\ UNCHANGED <<managerVars, now, engine, proxyVars, tasks, conns, cleaned_up>>

EngineGetConversationHistory ==
    /\ call' = QueryCall("get_conversation_history",
                         [messages |-> get_conversation_history(engine)])
    /\ UNCHANGED <<managerVars, now, engine, proxyVars, tasks, conns, cleaned_up>>

ProxyGetConnectionStatus ==
    /\ call' = QueryCall("get_connection_status", get_connection_status(proxy))
    /\ UNCHANGED <<managerVars, now, engine, proxyVars, tasks, conns, cleaned_up>>

InitQueries ==
    /\ max_instances = MaxCapacity
    /\ instances = EmptyDict
    /\ instance_metadata = EmptyDict
    /\ now = 1
    /\ call = NoCall
    /\ engine \in QueryEngines
    /\ \E c \in QueryProxies : proxy = c[1] /\ link = c[2]
    /\ sender = Idle
    /\ tasks = NoTasks
    /\ conns = NoConns
    /\ cleaned_up = {}

NextQueries ==
    \/ EngineGetStatus
    \/ EngineGetConversationHistory
    \/ ProxyGetConnectionStatus

SpecQueries == InitQueries /\ [][NextQueries]_vars

(***************************************************************************)
(* ToolsPlugin (src/plugins/tools_plugin.py), SpecTools.  A tool call is   *)
(* the name of a registered tool; its outcome is what the tool's function  *)
(* does under asyncio.wait_for(..., timeout=max_execution_time): it        *)
(* returns in time ("ok"), it is still running at the timeout              *)
(* ("timeout"), or it raises ("raise").                                    *)
(***************************************************************************)

MaxToolCalls == 3

ToolNames == {"weather", "calculator"}
ToolOutcomes == {"ok", "timeout", "raise"}
ToolCallLists == UNION {[1..n -> ToolNames] : n \in 0..MaxToolCalls}

ToolResult(tool, success, error, raised) ==
    [tool |-> tool, success |-> success, error |-> error, raised |-> raised]

(* _execute_single_tool: raised tells whether the call ends in an          *)
(* exception instead of a result.  The faulty variant does not catch the   *)
(* timeout.                                                                *)
_execute_single_tool_uncaught(tool_call, outcome) ==
    IF outcome = "ok" THEN ToolResult(tool_call, TRUE, "", FALSE)
    ELSE IF outcome = "timeout" THEN ToolResult(tool_call, FALSE, "timeout", TRUE)
    ELSE ToolResult(tool_call, FALSE, "error", FALSE)

_execute_single_tool(tool_call, outcome) ==
    IF outcome = "ok" THEN ToolResult(tool_call, TRUE, "", FALSE)
    ELSE IF outcome = "timeout" THEN ToolResult(tool_call, FALSE, "timeout", FALSE)
    ELSE ToolResult(tool_call, FALSE, "error", FALSE)

(* _execute_tools: with allow_parallel and more than one call,             *)
(* asyncio.gather(return_exceptions=True) and the conversion of exceptions *)
(* to failed results; else one call after the other, where an exception    *)
(* ends the loop and leaves _execute_tools.                                *)
_execute_tools(tool_calls, outcomes, allow_parallel) ==
    LET rs == [i \in 1..Len(tool_calls) |-> _execute_single_tool(tool_calls[i], outcomes[i])]
    IN  IF allow_parallel /\ Len(tool_calls) > 1
        THEN [raised |-> FALSE,
              results |-> [i \in 1..Len(tool_calls) |->
                              IF rs[i].raised
                              THEN ToolResult(tool_calls[i], FALSE, rs[i].error, FALSE)
                              ELSE rs[i]]]
        ELSE IF \E i \in 1..Len(tool_calls) : rs[i].raised
             THEN [raised |-> TRUE, results |-> <<>>]
             ELSE [raised |-> FALSE, results |-> rs]

IsSuccess(r) == r.success
IsFailure(r) == ~r.success

ToolsResponse(kind, error, content, tools) ==
    [kind |-> kind, error |-> error, content |-> content,
     tools_executed |-> Len(tools),
     successful |-> Len(SelectSeq(content, IsSuccess)),
     failed |-> Len(SelectSeq(content, IsFailure)),
     tools |-> tools]

(* _format_tool_results: the content lists the successful results, then    *)
(* the failed ones; the metadata counts them and names the tools.          *)
_format_tool_results(results) ==
    ToolsResponse("resp", FALSE,
                  SelectSeq(results, IsSuccess) \o SelectSeq(results, IsFailure),
                  [i \in 1..Len(results) |-> results[i].tool])

(* BasePlugin.handle_error: a dictionary with 'error': True *)
handle_error == ToolsResponse("resp", TRUE, <<>>, <<>>)

(* ToolsPlugin.process: tool_calls is what _detect_tool_calls finds in the *)
(* content.                                                                *)
process(enabled, tool_calls, outcomes, allow_parallel) ==
    IF ~enabled THEN ToolsResponse("none", FALSE, <<>>, <<>>)
    ELSE IF tool_calls = <<>> THEN ToolsResponse("none", FALSE, <<>>, <<>>)
    ELSE LET x == _execute_tools(tool_calls, outcomes, allow_parallel)
         IN  IF x.raised THEN handle_error ELSE _format_tool_results(x.results)

ToolsModes == {"parallel", "sequential", "disabled"}

(* process on one message; it keeps nothing from one message to the next *)
ToolsProcess ==
    /\ call = NoCall
    /\ \E tool_calls \in ToolCallLists, mode \in ToolsModes :
         \E outcomes \in [1..Len(tool_calls) -> ToolOutcomes] :
            call' = [Call("process", mode, outcomes, NoResult, tool_calls, <<>>, 0)
                        EXCEPT !.ret = process(mode # "disabled", tool_calls, outcomes,
                                               mode = "parallel")]
    /\ UNCHANGED <<managerVars, now, engine, proxyVars, tasks, conns, cleaned_up>>

InitTools ==
    /\ max_instances = MaxCapacity
    /\ instances = EmptyDict
    /\ instance_metadata = EmptyDict
    /\ now = 1
    /\ call = NoCall
    /\ engine = IdleEngine
    /\ proxy = NewProxy
    /\ link = NoLink
    /\ sender = Idle
    /\ tasks = NoTasks
    /\ conns = NoConns
    /\ cleaned_up = {}

NextTools == ToolsProcess

SpecTools == InitTools /\ [][NextTools]_vars

(***************************************************************************)
(* Overlapping calls of start_instance (SpecStarts).  The handlers of      *)
(* src/api/app.py call the manager from one thread per request, and        *)
(* start_instance gives up control at `await avatar.initialize()`: a call  *)
(* runs from its entry to the await, and later from the await to its       *)
(* return, and other calls run in between.  A task is a call suspended at  *)
(* the await: its number, the name it was given and the engine it made.    *)
(***************************************************************************)

MaxStarts == 3

(* start_instance up to the await: the two checks and create_avatar.       *)
(* ret = "await" is a call that has made its engine and waits.             *)
start_instance_begin(m, n, fail) ==
    IF AlreadyRunning(m, n) THEN [ret |-> "True", avatar |-> IdleEngine]
    ELSE IF LimitReached(m) THEN [ret |-> "False", avatar |-> IdleEngine]
    ELSE IF fail = "create" THEN [ret |-> "False", avatar |-> IdleEngine]
    ELSE [ret |-> "await", avatar |-> create_avatar(InstanceConfig(n))]

(* start_instance from the await on: initialize has returned (init_ok) or  *)
(* raised; the engine and its metadata are stored under the name.          *)
start_instance_resume(m, n, avatar, init_ok) ==
    IF ~init_ok THEN [m |-> m, ret |-> FALSE]
    ELSE [m |-> Manager(Put(m.instances, n, initialize(avatar)),
                        Put(m.instance_metadata, n, StartedMetadata)),
          ret |-> TRUE]

StartTask(id, n, avatar) == [op |-> "start_instance", id |-> id, name |-> n, avatar |-> avatar]

StartBegin(n) ==
    /\ now <= MaxStarts
    /\ \E fail \in {"none", "create"} :
         LET r == start_instance_begin(M, n, fail)
         IN  IF r.ret = "await"
             THEN /\ tasks' = tasks \cup {StartTask(now, n, r.avatar)}
                  /\ UNCHANGED call
             ELSE /\ call' = Call("start_instance", n, <<>>, Bool(r.ret = "True"),
                                  <<>>, <<>>, 0)
                  /\ UNCHANGED tasks
    /\ now' = now + 1
    /\ UNCHANGED <<managerVars, engine, proxyVars, conns, cleaned_up>>

StartResume ==
    /\ \E t \in tasks, init_ok \in BOOLEAN :
         LET r == start_instance_resume(M, t.name, t.avatar, init_ok)
         IN  /\ SetManager(r.m)
             /\ call' = Call("start_instance", t.name, <<>>, Bool(r.ret), <<>>, <<>>, 1)
             /\ tasks' = tasks \ {t}
    /\ UNCHANGED <<max_instances, now, engine, proxyVars, conns, cleaned_up>>

InitStarts == Init

NextStarts ==
    \/ \E n \in Names : StartBegin(n) \/ StopInstance(n)
    \/ StartResume

SpecStarts == InitStarts /\ [][NextStarts]_vars

(***************************************************************************)
(* The flush of _on_open, one iteration at a time (SpecFlush).  _on_open   *)
(* runs on the connection's thread; between two iterations of its loop the *)
(* caller's thread may run send or disconnect.  The loop is a `for` over   *)
(* the list message_queue itself, so it also visits what is appended while *)
(* it runs.  While a flush is in progress proxy.message_queue holds the    *)
(* part of the list the loop has not visited yet: the part it has visited  *)
(* is read by nothing and is removed by the clear() that ends _on_open.    *)
(***************************************************************************)

(* The running loop: the position of its iterator in the list is kept     *)
(* modulo 2 (the list itself is kept as its unvisited part).               *)
FlushTask(i) == [op |-> "_on_open", i |-> i]
Flushing == \E t \in tasks : t.op = "_on_open"

(* a send on the caller's thread, before or during the flush *)
FlushSend ==
    /\ Len(proxy.message_queue) < MaxQueue
    /\ Len(proxy.wire) + Len(proxy.message_queue) < MaxWire
    /\ \E message \in Messages, ws_ok \in SendOk :
         LET r == send(proxy, message, ws_ok)
         IN  /\ proxy' = r.p
             /\ call' = ProxyCall("send", message, Bool(r.ret))
    /\ UNCHANGED <<managerVars, now, engine, link, sender, tasks, conns, cleaned_up>>

(* connect, with the connection still opening when connect returns *)
FlushConnect ==
    /\ proxy.ws < MaxConnects
    /\ ~Flushing
    /\ LET r == connect(proxy, "pending", <<>>)
       IN  /\ proxy' = r.p
           /\ call' = ProxyCall("connect", "pending", Bool(r.ret))
    /\ link' = "opening"
    /\ UNCHANGED <<managerVars, now, engine, sender, tasks, conns, cleaned_up>>

(* _on_open is entered: is_connected = True, and the loop begins *)
FlushOpen ==
    /\ link = "opening"
    /\ proxy' = [proxy EXCEPT !.is_connected = TRUE]
    /\ link' = "open"
    /\ tasks' = tasks \cup {FlushTask(0)}
    /\ call' = ProxyCall("_on_open", "", NoResult)
    /\ UNCHANGED <<managerVars, now, engine, sender, conns, cleaned_up>>

(* one iteration: self.send(message) for the next message of the list *)
FlushStep ==
    /\ Flushing
    /\ proxy.message_queue # <<>>
    /\ \E ws_ok \in SendOk :
         proxy' = send([proxy EXCEPT !.message_queue = Tail(@)],
                       Head(proxy.message_queue), ws_ok).p
    /\ tasks' = {IF t.op = "_on_open" THEN FlushTask((t.i + 1) % 2) ELSE t : t \in tasks}
    /\ UNCHANGED <<managerVars, now, engine, link, sender, conns, call, cleaned_up>>

(* the loop has reached the end of the list: message_queue.clear() *)
FlushClear ==
    /\ Flushing
    /\ proxy.message_queue = <<>>
    /\ proxy' = OnOpenClear(proxy)
    /\ tasks' = {t \in tasks : t.op # "_on_open"}
    /\ call' = ProxyCall("_on_open", "done", NoResult)
    /\ UNCHANGED <<managerVars, now, engine, link, sender, conns, cleaned_up>>

(* disconnect on the caller's thread, also while the flush runs *)
FlushDisconnect ==
    /\ proxy.ws # 0
    /\ \E close_ok \in BOOLEAN :
         /\ proxy' = disconnect(proxy, close_ok)
         /\ link' = IF close_ok THEN "closed" ELSE link
    /\ call' = ProxyCall("disconnect", "", NoResult)
    /\ UNCHANGED <<managerVars, now, engine, sender, tasks, conns, cleaned_up>>

InitFlush == InitProxy

NextFlush ==
    \/ FlushSend
    \/ FlushConnect
    \/ FlushOpen
    \/ FlushStep
    \/ FlushClear
    \/ FlushDisconnect

(* the connection's thread keeps running: a flush that can take a step     *)
(* takes it                                                                *)
SpecFlush == InitFlush /\ [][NextFlush]_vars /\ WF_vars(FlushStep) /\ WF_vars(FlushClear)

(***************************************************************************)
(* The connections of one proxy (SpecConns).  Every connect makes a new    *)
(* WebSocketApp and a new thread and assigns them to self.ws and           *)
(* self.ws_thread; proxy.ws is the number of the one self.ws refers to.    *)
(* conns[k] is the state of connection k: "opening", "open", "closing"     *)
(* (close() was called on it and its thread has not yet ended) or          *)
(* "closed" (its thread has ended).  All of them were given the same       *)
(* bound methods _on_open and _on_close as callbacks.                      *)
(***************************************************************************)

Live(state) == state \in {"opening", "open"}

CurrentLink(p, cs) ==
    IF p.ws = 0 THEN NoLink
    ELSE IF cs[p.ws] = "closing" THEN "closed" ELSE cs[p.ws]

ConnsConnect ==
    /\ proxy.ws < MaxConnects
    /\ \E outcome \in ConnectOutcomes, oks \in FlushOks(proxy) :
         LET r == connect(proxy, outcome, oks)
             cs == IF outcome = "error" THEN conns
                   ELSE Append(conns, IF outcome = "open" THEN "open" ELSE "opening")
         IN  /\ proxy' = r.p
             /\ conns' = cs
             /\ link' = CurrentLink(r.p, cs)
             /\ call' = ProxyCall("connect", outcome, Bool(r.ret))
    /\ UNCHANGED <<managerVars, now, engine, sender, tasks, cleaned_up>>

(* connection k opens after the connect that made it has returned *)
ConnsOnOpen ==
    /\ \E k \in 1..Len(conns) :
         /\ conns[k] = "opening"
         /\ conns' = [conns EXCEPT ![k] = "open"]
    /\ \E oks \in FlushOks(proxy) : proxy' = _on_open(proxy, oks)
    /\ link' = CurrentLink(proxy', conns')
    /\ call' = ProxyCall("_on_open", "", NoResult)
    /\ UNCHANGED <<managerVars, now, engine, sender, tasks, cleaned_up>>

(* connection k fails to open, is closed by the peer, or ends after        *)
(* close(): its thread calls _on_close                                     *)
ConnsOnClose ==
    /\ \E k \in 1..Len(conns) :
         /\ conns[k] # "closed"
         /\ conns' = [conns EXCEPT ![k] = "closed"]
    /\ proxy' = _on_close(proxy)
    /\ link' = CurrentLink(proxy', conns')
    /\ call' = ProxyCall("_on_close", "", NoResult)
    /\ UNCHANGED <<managerVars, now, engine, sender, tasks, cleaned_up>>

(* disconnect: self.ws.close() on the connection self.ws refers to *)
ConnsDisconnect ==
    /\ \E close_ok \in IF proxy.ws # 0 THEN BOOLEAN ELSE {TRUE} :
         /\ proxy' = disconnect(proxy, close_ok)
         /\ conns' = IF proxy.ws # 0 /\ close_ok /\ Live(conns[proxy.ws])
                     THEN [conns EXCEPT ![proxy.ws] = "closing"] ELSE conns
    /\ link' = CurrentLink(proxy', conns')
    /\ call' = ProxyCall("disconnect", "", NoResult)
    /\ UNCHANGED <<managerVars, now, engine, sender, tasks, cleaned_up>>

InitConns == InitProxy

NextConns ==
    \/ ConnsConnect
    \/ ConnsOnOpen
    \/ ConnsOnClose
    \/ ConnsDisconnect
    \/ FlushSend

SpecConns == InitConns /\ [][NextConns]_vars

(***************************************************************************)
(* Properties of the manager (Spec).                                       *)
(***************************************************************************)

RunningCount == Cardinality(DOMAIN instances)

(* C1: over any sequence of start_instance, stop_instance and              *)
(* restart_instance calls (and of the session calls, which may start an    *)
(* instance) the running set never holds more than max_instances entries;  *)
(* a start_instance of a new name made when the running set is full        *)
(* returns False and leaves the running set as it is.                      *)
C1_RefusedWhenFull ==
    (/\ call'.op = "start_instance"
     /\ call'.name \notin DOMAIN instances
     /\ RunningCount >= max_instances)
    => (call'.ret = Bool(FALSE) /\ instances' = instances)

C1_CapacityBound == [](RunningCount <= max_instances) /\ [][C1_RefusedWhenFull]_vars

C1_Witness ==
    /\ call.op = "start_instance"
    /\ call.ret = Bool(FALSE)
    /\ call.name \notin DOMAIN instances
    /\ RunningCount = max_instances

(* C2: start_instance of a name that is in the running set returns True,   *)
(* constructs no engine and leaves the engines and the metadata unchanged, *)
(* also when the running set is full.                                      *)
C2_Idempotent ==
    (call'.op = "start_instance" /\ call'.name \in DOMAIN instances)
    => /\ call'.ret = Bool(TRUE)
       /\ call'.constructed = 0
       /\ instances' = instances
       /\ instance_metadata' = instance_metadata

C2_StartIdempotent == [][C2_Idempotent]_vars

C2_Witness ==
    /\ call.op = "start_instance"
    /\ call.ret = Bool(TRUE)
    /\ call.constructed = 0
    /\ call.name \in DOMAIN instances
    /\ RunningCount = max_instances

(* C3: stop_instance of a running instance removes it from the running set *)
(* and returns True, also when the cleanup of one of its plugins raises.   *)
C3_Removed ==
    (call'.op = "stop_instance" /\ call'.name \in DOMAIN instances)
    => (call'.name \notin DOMAIN instances' /\ call'.ret = Bool(TRUE))

C3_StopAlwaysRemoves == [][C3_Removed]_vars

(* C9: a stop_instance that returns True takes one entry out of the        *)
(* running set; a start_instance of a new name, with nothing failing in    *)
(* the engine's construction and initialization, succeeds whenever the     *)
(* running set is below max_instances; with max_instances = 2: start(a),   *)
(* start(b) succeed, start(c) fails, stop(a) succeeds, start(c) succeeds.  *)
C9_StopFrees ==
    (call'.op = "stop_instance" /\ call'.ret = Bool(TRUE))
    => (/\ RunningCount' = RunningCount - 1
        /\ call'.name \notin DOMAIN instances')

C9_StartBelowCapacity ==
    \A n \in Names \ DOMAIN instances :
        RunningCount < max_instances
        => LET r == start_instance(M, n, "none")
           IN  r.ret /\ DOMAIN r.m.instances = DOMAIN instances \cup {n}

C9_Scenario ==
    LET s1 == start_instance(Manager(EmptyDict, EmptyDict), "a", "none")
        s2 == start_instance(s1.m, "b", "none")
        s3 == start_instance(s2.m, "c", "none")
        s4 == stop_instance(s3.m, "a", TRUE, 0)
        s5 == start_instance(s4.m, "c", "none")
    IN  max_instances = 2
        => (/\ s1.ret /\ s2.ret /\ ~s3.ret /\ s4.ret /\ s5.ret
            /\ DOMAIN s3.m.instances = {"a", "b"}
            /\ DOMAIN s5.m.instances = {"b", "c"})

C9_StopFreesSlot ==
    [](C9_StartBelowCapacity /\ C9_Scenario) /\ [][C9_StopFrees]_vars

C9_Witness ==
    /\ max_instances = 2
    /\ call.op = "start_instance"
    /\ call.name = "c"
    /\ call.ret = Bool(TRUE)
    /\ call.constructed = 1
    /\ DOMAIN instances = {"b", "c"}
    /\ "a" \in DOMAIN instance_metadata
    /\ instance_metadata["a"].status = "stopped"

(***************************************************************************)
(* Properties of the proxy (SpecProxy).                                    *)
(***************************************************************************)

(* C4: a send that finds the proxy not connected appends its message to    *)
(* message_queue and returns False; when is_connected then becomes True    *)
(* every message of the queue is transmitted on the connection, in the     *)
(* order of the queue, and the queue is empty afterwards.                  *)
C4_Queued ==
    (call'.op = "send" /\ sender.pc = "queue")
    => /\ call'.ret = Bool(FALSE)
       /\ proxy'.message_queue = Append(proxy.message_queue, sender.message)

C4_Flushed ==
    (~proxy.is_connected /\ proxy'.is_connected)
    => /\ proxy'.wire = proxy.wire \o proxy.message_queue
       /\ proxy'.message_queue = <<>>

C4_QueueFlushedInOrder == [][C4_Queued /\ C4_Flushed]_vars

(***************************************************************************)
(* Properties of the engine (SpecEngine).  After a process_message call on *)
(* an active session, call.outs holds what each plugin answers when its    *)
(* process is called and call.invoked the plugins whose process was        *)
(* called, by their position in engine.plugins.                            *)
(***************************************************************************)

Processed == call.op = "process_message" /\ call.ret.kind = "ok"
Invoked == {call.invoked[k] : k \in 1..Len(call.invoked)}
Merged == call.ret.response
IsFinal(i) == call.outs[i].kind = "resp" /\ call.outs[i].final
FinalBefore(i) == \E j \in 1..(i - 1) : HasProcess(engine.plugins[j]) /\ IsFinal(j)
RaisedAt(i) == i \in Invoked /\ call.outs[i].kind = "raise"
Answered == {i \in Invoked : call.outs[i].kind = "resp"}
WithContent == {i \in Answered : call.outs[i].content # ""}
QuietOuts == [i \in 1..Len(call.outs) |->
                 IF call.outs[i].kind = "raise" THEN None ELSE call.outs[i]]

(* C5: when the process of plugin i raises, the process of every later     *)
(* plugin is still called unless a response before it was final, the call  *)
(* does not raise, and the merged response is the one the plugins that did *)
(* not raise produce: its content is the content of one of them whenever   *)
(* one of them returned content.                                           *)
C5_RaiseIsolated ==
    Processed =>
      \A i \in 1..Len(engine.plugins) :
        RaisedAt(i) =>
          /\ \A k \in (i + 1)..Len(engine.plugins) :
                (HasProcess(engine.plugins[k]) /\ ~FinalBefore(k)) => k \in Invoked
          /\ call.ret.kind # "raise"
          /\ Merged = _process_through_plugins(engine.plugins, QuietOuts).response
          /\ WithContent # {}
               => \E j \in WithContent : Merged.content = call.outs[j].content

C5_Witness ==
    /\ Processed
    /\ \E i \in 1..Len(engine.plugins), k \in 1..Len(engine.plugins) :
         /\ i < k
         /\ RaisedAt(i)
         /\ k \in WithContent
         /\ Merged.content = call.outs[k].content

(* C6: when a plugin's response is final, the process of no later plugin   *)
(* is called for that message, and the process of every plugin before it   *)
(* (of those that have one) has been called.                               *)
C6_FinalStops ==
    Processed =>
      \A i \in Invoked :
        IsFinal(i) =>
          /\ \A k \in (i + 1)..Len(engine.plugins) : k \notin Invoked
          /\ \A j \in 1..(i - 1) : HasProcess(engine.plugins[j]) => j \in Invoked

C6_Witness ==
    /\ Processed
    /\ \E i \in Invoked :
         /\ IsFinal(i)
         /\ i > 1
         /\ i < Len(engine.plugins)
         /\ HasProcess(engine.plugins[i + 1])
         /\ Invoked = 1..i

(* C7: process_message on an engine whose session is not active (never     *)
(* started, or stopped) returns the error "No active session", raises      *)
(* nothing, calls the process of no plugin and leaves the engine, its      *)
(* history and its metrics as they are; so does the manager's              *)
(* process_message for a running instance with such an engine.             *)
C7_EngineRefuses ==
    (call'.op = "process_message" /\ ~engine.session_state.active)
    => /\ call'.ret = Error("No active session")
       /\ call'.invoked = <<>>
       /\ engine' = engine

C7_ManagerRefuses ==
    ~engine.session_state.active
    => \A outs \in {NoneOuts(engine.plugins)} \cup {[i \in 1..Len(engine.plugins) |-> Raise]} :
         LET m == Manager([n \in {"a"} |-> engine], [n \in {"a"} |-> StartedMetadata])
             r == manager_process_message(m, "a", "hello", outs)
         IN  r.ret = Error("No active session") /\ r.invoked = <<>> /\ r.m = m

C7_NoActiveSession == []C7_ManagerRefuses /\ [][C7_EngineRefuses]_vars

C7_Witness ==
    /\ call.op = "process_message"
    /\ call.ret = Error("No active session")
    /\ ~engine.session_state.active
    /\ engine.session_state.session_id # "None"
    /\ Len(engine.session_state.messages) > 0
    /\ engine.session_state.metrics.messages_sent > 0

(* C8: the content of the merged response is the content of the last       *)
(* invoked plugin that returned a non-empty content, the empty string if   *)
(* there is none; its metadata holds, for every key of the metadata of an  *)
(* invoked plugin, the value of the last invoked plugin that has the key.  *)
(* With plugins rag, tools, third, where rag answers "ctx" (not final) and *)
(* tools answers "Tool X: result" (final): the content is                  *)
(* "Tool X: result", the metadata has the keys of both, third is not       *)
(* invoked.                                                                *)
Last(S) == CHOOSE i \in S : \A j \in S : j <= i

ExpectedContent == IF WithContent = {} THEN "" ELSE call.outs[Last(WithContent)].content

ExpectedMetadata ==
    {kv \in UNION {call.outs[i].metadata : i \in Answered} :
        \E i \in Answered :
            /\ kv \in call.outs[i].metadata
            /\ \A j \in Answered : j > i => kv[1] \notin Keys(call.outs[j].metadata)}

ScenarioOuts(third) ==
    << [kind |-> "resp", content |-> "ctx",
        metadata |-> {<<"plugin", "rag">>, <<"rag", "n">>}, final |-> FALSE],
       [kind |-> "resp", content |-> "Tool X: result",
        metadata |-> {<<"plugin", "tools">>, <<"tools", "n">>}, final |-> TRUE],
       third >>

C8_Scenario ==
    \A third \in Outcomes("third") :
        LET run == _process_through_plugins(<<"rag", "tools", "third">>, ScenarioOuts(third))
        IN  /\ run.response.content = "Tool X: result"
            /\ run.response.metadata = {<<"plugin", "tools">>, <<"rag", "n">>, <<"tools", "n">>}
            /\ run.invoked = <<1, 2>>

C8_MergeLastWriterWins ==
    /\ C8_Scenario
    /\ Processed => (Merged.content = ExpectedContent /\ Merged.metadata = ExpectedMetadata)

C8_Witness ==
    /\ Processed
    /\ engine.plugins = <<"rag", "tools", "third">>
    /\ \E third \in Outcomes("third") : call.outs = ScenarioOuts(third)
    /\ call.invoked = <<1, 2>>
    /\ Merged.content = "Tool X: result"
    /\ Keys(Merged.metadata) = {"plugin", "rag", "tools"}

(* C10: start_session called while a session is active does not begin a    *)
(* second session: the id, the history and the metrics of the active       *)
(* session are not replaced.                                               *)
C10_Kept ==
    (call'.op = "start_session" /\ engine.session_state.active)
    => engine'.session_state = engine.session_state

C10_ActiveSessionKept == [][C10_Kept]_vars

(* C11: the side effects of initialize (loading and initializing the       *)
(* plugins, creating the realtime and the speech component) run at most    *)
(* once for an engine, over any sequence of create_avatar, initialize and  *)
(* start_session; an initialize of an initialized engine changes nothing.  *)
C11_SecondIsNoOp ==
    (call'.op = "initialize" /\ engine.initialized /\ call'.ret.kind # "raise")
    => engine' = engine

C11_InitializeOnce == [](engine.plugin_loads <= 1) /\ [][C11_SecondIsNoOp]_vars

(* C12: a start_session that gets past initialization ends with the        *)
(* session active and returns the session id with status "active",         *)
(* whatever the outcome of the realtime connect (open in time, still       *)
(* pending, error) and of the avatar start: neither failure is raised or   *)
(* reported by start_session.                                              *)
C12_Active ==
    (call'.op = "start_session" /\ (engine.initialized \/ call'.ret.kind # "raise"))
    => /\ engine'.session_state.active
       /\ call'.ret = Result("ok", "active", "", engine'.session_state.session_id,
                             NoMetrics, EmptyResponse)

C12_AnyOutcome ==
    \A arg \in SessionIds \cup {"None"}, conn \in ConnectOutcomes, avatar_ok \in BOOLEAN :
        LET r == start_session(engine, arg, now, TRUE, conn, <<>>, avatar_ok)
            sid == IF arg = "None" THEN GeneratedId(now) ELSE arg
        IN  /\ r.e.session_state.active
            /\ r.e.session_state.session_id = sid
            /\ r.ret = Result("ok", "active", "", sid, NoMetrics, EmptyResponse)

C12_SoftDependencies == []C12_AnyOutcome /\ [][C12_Active]_vars

C12_Witness ==
    /\ call.op = "start_session"
    /\ call.ret.status = "active"
    /\ engine.session_state.active
    /\ engine.realtime_proxy.present
    /\ ~engine.realtime_proxy.p.is_connected
    /\ engine.speech_handler.present
    /\ ~engine.speech_handler.avatar_connected

(* C13: a process_message on an active session appends one user entry to   *)
(* the history, and after it an assistant entry if and only if the content *)
(* of the merged response is not empty: when no plugin produces content    *)
(* the history grows by the user entry only.                               *)
C13_Appended ==
    (call'.op = "process_message" /\ engine.session_state.active)
    => LET content == call'.ret.response.content
           user == <<[role |-> "user", content |-> "hello"]>>
           assistant == IF content # ""
                        THEN <<[role |-> "assistant", content |-> content]>>
                        ELSE <<>>
       IN  engine'.session_state.messages
               = engine.session_state.messages \o user \o assistant

C13_AssistantIffContent == [][C13_Appended]_vars

(* C14: send returns True exactly when it transmitted the message on the   *)
(* connection and False exactly when it appended the message to            *)
(* message_queue: after a send that returns False the message is in the    *)
(* queue.                                                                  *)
C14_Returned ==
    (call'.op = "send" /\ sender'.pc = "idle")
    => /\ call'.ret = Bool(TRUE) <=> proxy'.wire = Append(proxy.wire, call'.name)
       /\ call'.ret = Bool(FALSE)
            <=> proxy'.message_queue = Append(proxy.message_queue, call'.name)

C14_FalseMeansQueued == [][C14_Returned]_vars

(* C15: after disconnect has returned on a proxy that has a connection     *)
(* (ws is set), is_connected is False, whether or not ws.close()           *)
(* succeeded.                                                              *)
C15_Disconnected ==
    (call'.op = "disconnect" /\ proxy.ws # 0) => ~proxy'.is_connected

C15_DisconnectAlways == [][C15_Disconnected]_vars

(* C16: shutdown_all attempts a stop for every instance that is running    *)
(* when it is called and does not raise, also when some of the stops fail; *)
(* an instance whose own stop does not fail is stopped and removed         *)
(* whatever happens to the others; and the call reports what each stop     *)
(* returned.                                                               *)
C16_Stopped ==
    call'.op = "shutdown_all"
    => /\ {o[1] : o \in call'.outcomes} = DOMAIN instances
       /\ call'.ret.kind # "raise"
       /\ DOMAIN instances' = {n \in DOMAIN instances : <<n, FALSE>> \in call'.outcomes}
       /\ \A n \in DOMAIN instances \ DOMAIN instances' :
             instance_metadata'[n].status = "stopped"

C16_Reported == call'.op = "shutdown_all" => call'.ret.kind # "none"

C16_ShutdownAll == [][C16_Stopped /\ C16_Reported]_vars

(* The first four parts of C16 alone, without the report. *)
C16_OthersStopped == [][C16_Stopped]_vars

(* C17: restart_instance is a stop_instance (when the name is running)     *)
(* followed by a start_instance, and the start is attempted also when the  *)
(* stop fails: the restart returns what that start returns, True for an    *)
(* instance whose stop failed and which is therefore still running; when   *)
(* restart_instance returns True the running set holds an engine for the   *)
(* name.                                                                   *)
C17_Restarted ==
    call'.op = "restart_instance"
    => /\ call'.ret = Bool(TRUE) => call'.name \in DOMAIN instances'
       /\ (/\ call'.name \in DOMAIN instances
           /\ call'.name \in DOMAIN instances'
           /\ call'.constructed = 0) => call'.ret = Bool(TRUE)

C17_StopThenStart ==
    \A n \in Names, fail \in Fails :
      \A close_ok \in CloseForName(n), raiser \in RaisersFor(n) :
        LET after == IF n \in DOMAIN instances
                     THEN stop_instance(M, n, close_ok, raiser).m ELSE M
        IN  restart_instance(M, n, close_ok, raiser, fail) = start_instance(after, n, fail)

C17_RestartStartsAnyway == []C17_StopThenStart /\ [][C17_Restarted]_vars

C17_Witness ==
    /\ call.op = "restart_instance"
    /\ call.ret = Bool(TRUE)
    /\ call.constructed = 0
    /\ call.name \in DOMAIN instances
    /\ instance_metadata[call.name].status = "running"

(* C18: stop_session on an engine whose session is not active (never       *)
(* started, or already stopped) returns the error "No active session" and  *)
(* changes nothing: no disconnect, no avatar stop, no plugin cleanup, the   *)
(* session state as it was; so a second stop_session in a row fails.       *)
C18_Refused ==
    (call'.op = "stop_session" /\ ~engine.session_state.active)
    => /\ call'.ret = Error("No active session")
       /\ call'.cleaned = <<>>
       /\ engine' = engine

C18_AnyInput ==
    ~engine.session_state.active
    => \A close_ok \in BOOLEAN, raiser \in 0..Len(engine.plugins) :
          stop_session(engine, close_ok, raiser)
              = [e |-> engine, ret |-> Error("No active session"), cleaned |-> <<>>]

C18_StopWithoutSession == []C18_AnyInput /\ [][C18_Refused]_vars

C18_Witness ==
    /\ call.op = "stop_session"
    /\ call.ret = Error("No active session")
    /\ ~engine.session_state.active
    /\ engine.session_state.session_id # "None"
    /\ engine.realtime_proxy.present
    /\ Len(engine.plugins) > 0

(* C19: stop_session on an active session calls the cleanup of every       *)
(* plugin (that has one), once and in order, also when the cleanup of an   *)
(* earlier plugin raises; it ends with the session not active and returns  *)
(* the id of the session that was active, the status "stopped" and that    *)
(* session's metrics.                                                      *)
WithCleanup == {i \in 1..Len(engine.plugins) : HasCleanup(engine.plugins[i])}

C19_Stopped ==
    (call'.op = "stop_session" /\ engine.session_state.active)
    => /\ Len(call'.cleaned) = Cardinality(WithCleanup)
       /\ {call'.cleaned[k] : k \in 1..Len(call'.cleaned)} = WithCleanup
       /\ \A k \in 1..(Len(call'.cleaned) - 1) : call'.cleaned[k] < call'.cleaned[k + 1]
       /\ ~engine'.session_state.active
       /\ call'.ret = Result("ok", "stopped", "", engine.session_state.session_id,
                             engine.session_state.metrics, EmptyResponse)

C19_StopCleansAll == [][C19_Stopped]_vars

C19_Witness ==
    /\ call.op = "stop_session"
    /\ call.ret.status = "stopped"
    /\ call.ret.metrics.messages_sent > 0
    /\ ~engine.session_state.active
    /\ Len(call.outs) > 1
    /\ call.outs[1].kind = "raise"
    /\ Len(call.cleaned) = Len(engine.plugins)

(* C20: stop_instance of a name that is not in the running set returns     *)
(* False, calls no cleanup, and leaves the running set and the metadata of *)
(* every instance as they are.                                             *)
C20_NotRunning ==
    (call'.op = "stop_instance" /\ call'.name \notin DOMAIN instances)
    => /\ call'.ret = Bool(FALSE)
       /\ call'.cleaned = <<>>
       /\ instances' = instances
       /\ instance_metadata' = instance_metadata

C20_StopNotRunning == [][C20_NotRunning]_vars

C20_Witness ==
    /\ call.op = "stop_instance"
    /\ call.ret = Bool(FALSE)
    /\ call.name \notin DOMAIN instances
    /\ call.name \in DOMAIN instance_metadata
    /\ instance_metadata[call.name].status = "stopped"
    /\ DOMAIN instances # {}

(* C21: stop_instance of a running instance calls the cleanup of every     *)
(* plugin of the instance (that has one): an exception of the cleanup of   *)
(* one plugin does not keep the plugins after it from being cleaned up.    *)
C21_AllCleaned ==
    (call'.op = "stop_instance" /\ call'.name \in DOMAIN instances)
    => LET plugins == instances[call'.name].plugins
       IN  {call'.cleaned[k] : k \in 1..Len(call'.cleaned)}
               = {i \in 1..Len(plugins) : HasCleanup(plugins[i])}

C21_StopCleansEveryPlugin == [][C21_AllCleaned]_vars

(* C22: stop_instance of an instance whose session is active stops the     *)
(* session before it removes the engine from the running set: an engine    *)
(* that leaves the running set has a session that is not active (the       *)
(* plugins were cleaned up by the session's stop), and the metadata of its *)
(* name then has the status "stopped".                                     *)
C22_Left ==
    \A n \in DOMAIN instances \ DOMAIN instances' :
        /\ call'.op \in {"stop_instance", "restart_instance", "shutdown_all"}
        /\ n \in DOMAIN instance_metadata'
        /\ call'.op # "restart_instance" => instance_metadata'[n].status = "stopped"

C22_SessionStopped ==
    \A n \in DOMAIN instances :
      \A close_ok \in BOOLEAN, raiser \in RaisersFor(n) :
        LET r == stop_instance(M, n, close_ok, raiser)
        IN  n \notin DOMAIN r.m.instances
            => /\ ~r.avatar.session_state.active
               /\ r.avatar.session_state.messages = instances[n].session_state.messages
               /\ SessionActive(instances[n])
                    => r.session_cleaned = CleanupIsolated(instances[n].plugins, raiser, 1, <<>>)
               /\ r.m.instance_metadata[n].status = "stopped"

C22_StopsSessionFirst == []C22_SessionStopped /\ [][C22_Left]_vars

C22_Witness ==
    /\ call.op = "stop_instance"
    /\ call.ret = Bool(TRUE)
    /\ call.name \notin DOMAIN instances
    /\ instance_metadata[call.name].status = "stopped"
    /\ instance_metadata[call.name].sessions > 0
    /\ Len(call.cleaned) > Len(InstanceConfig(call.name).plugins)
    /\ DOMAIN instances # {}

(* C23: start_instance returns True for a name that was not running only   *)
(* when the engine was constructed and initialized, and then the engine is *)
(* registered with fresh metadata; when the construction or the            *)
(* initialization fails it returns False, and the running set and the      *)
(* metadata are exactly as before the call.                                *)
C23_Outcome ==
    call'.op = "start_instance"
    => /\ call'.ret = Bool(FALSE)
            => (instances' = instances /\ instance_metadata' = instance_metadata)
       /\ (call'.ret = Bool(TRUE) /\ call'.name \notin DOMAIN instances)
            => /\ call'.constructed = 1
               /\ call'.name \in DOMAIN instances'
               /\ instances'[call'.name].initialized
               /\ instance_metadata'[call'.name] = StartedMetadata

C23_Failure ==
    \A n \in Names \ DOMAIN instances, fail \in {"create", "init"} :
        LET r == start_instance(M, n, fail)
        IN  ~r.ret /\ r.m = M

C23_StartAllOrNothing == []C23_Failure /\ [][C23_Outcome]_vars

C23_Witness ==
    /\ call.op = "start_instance"
    /\ call.ret = Bool(FALSE)
    /\ call.constructed = 1
    /\ call.name \notin DOMAIN instances
    /\ call.name \in DOMAIN instance_metadata
    /\ instance_metadata[call.name].status = "stopped"
    /\ RunningCount < max_instances

(* C24: for every inbound frame (that parses to a dictionary with a type)  *)
(* the handler registered for the frame's type, if there is one, is        *)
(* called, and the callback on_message_callback, if it is set, is called   *)
(* in all cases: also when the type has no handler and when the handler    *)
(* of the type fails.                                                      *)
C24_Called ==
    (call'.op = "_on_message" /\ call'.name \in FrameTypes)
    => LET called == {call'.invoked[k] : k \in 1..Len(call'.invoked)}
       IN  /\ call'.name \in proxy.message_handlers => "handler" \in called
           /\ proxy.on_message_callback => "callback" \in called

C24_CallbackAlways == [][C24_Called]_vars

(* C25: the proxy never reconnects on its own.  Once the connection has    *)
(* closed (_on_close) or disconnect has returned, the status is            *)
(* not-connected, and it stays so, with no new connection opened, until    *)
(* connect is called again.                                                *)
C25_ClosedOrDisconnected == call.op \in {"_on_close", "disconnect"}

C25_ConnectStep == call'.op = "connect" /\ call' # call

C25_StaysClosed ==
    (~proxy.is_connected /\ link \in {"none", "closed"} /\ ~C25_ConnectStep)
    => /\ ~proxy'.is_connected
       /\ proxy'.ws = proxy.ws
       /\ link' = link

C25_NoReconnect ==
    /\ [](C25_ClosedOrDisconnected => ~proxy.is_connected)
    /\ [][C25_StaysClosed]_vars

(* C26: the pipeline calls the plugins strictly in the order in which      *)
(* they were loaded; the priority a plugin declares never changes that     *)
(* order.  call.invoked lists the load positions of the plugins called.    *)
C26_LoadOrder ==
    \A a, b \in 1..Len(call.invoked) : a < b => call.invoked[a] < call.invoked[b]

C27_Queried ==
    /\ call' # call
    /\ call'.op \in {"get_status", "get_conversation_history", "get_connection_status"}

C27_Reports ==
    call'.op = "get_connection_status"
    => /\ call'.ret.connected = proxy.is_connected
       /\ call'.ret.queued_messages = Len(proxy.message_queue)

C27_QueriesReadOnly ==
    [][C27_Queried => /\ UNCHANGED <<engine, proxy, link, sender>>
                      /\ UNCHANGED <<instances, instance_metadata, max_instances>>
                      /\ C27_Reports]_vars

(* get_connection_status on a proxy that was connected, has closed and has *)
(* a message queued, beside an engine with a conversation                  *)
C27_Witness ==
    /\ call.op = "get_connection_status"
    /\ proxy.ws # 0
    /\ ~call.ret.connected
    /\ call.ret.queued_messages > 0
    /\ engine.session_state.messages # <<>>

(* C28: with send on the caller's thread while _on_open flushes the queue  *)
(* on the connection's thread, a message passed to send is transmitted     *)
(* once or is still in the outbound queue: when a send that found the      *)
(* proxy not connected returns, its message is in the queue or has been    *)
(* transmitted, and the flush's clear has not dropped it.                  *)
RECURSIVE Count(_, _)
Count(seq, x) ==
    IF seq = <<>> THEN 0
    ELSE (IF Head(seq) = x THEN 1 ELSE 0) + Count(Tail(seq), x)

C28_QueuedSendReturns == sender.pc = "queue" /\ sender'.pc = "idle"

C28_Held(p, m) == Count(p.message_queue, m) + Count(p.wire, m)

C28_QueuedSendKept ==
    [][C28_QueuedSendReturns
       => \/ C28_Held(proxy', sender.message) > C28_Held(proxy, sender.message)
          \/ /\ proxy'.message_queue # <<>>
             /\ proxy'.message_queue[Len(proxy'.message_queue)] = sender.message]_vars

(* C29: every successful start_session begins with an empty message        *)
(* history and zeroed counters: whatever messages, counters and start time *)
(* the engine's previous session had, after the call the history is empty, *)
(* the three counters are 0 and the start time is that of the call.        *)
C29_Started ==
    /\ call'.op = "start_session"
    /\ call'.ret.kind = "ok"
    /\ now' = now + 1

C29_Fresh ==
    /\ engine'.session_state.active
    /\ engine'.session_state.messages = <<>>
    /\ engine'.session_state.metrics = ZeroMetrics
    /\ engine'.session_state.start_time = now
    /\ get_conversation_history(engine') = <<>>
    /\ get_status(engine').metrics = ZeroMetrics

C29_SessionStartsFresh == [][C29_Started => C29_Fresh]_vars

(* a session started on an engine that had started one before (its proxy   *)
(* was connected twice)                                                    *)
C29_Witness ==
    /\ call.op = "start_session"
    /\ call.ret.kind = "ok"
    /\ engine.realtime_proxy.p.ws = 2
    /\ engine.session_state.start_time = 2
    /\ engine.session_state.messages = <<>>

(* C30: in the tools plugin a tool whose execution exceeds                 *)
(* max_execution_time gives a failed (timeout) outcome for that tool only: *)
(* process still returns a response, no exception leaves it, and the       *)
(* response reports one outcome for every tool called for the message,     *)
(* successful for the tools that returned and failed for the others.       *)
C30_Called == call.op = "process" /\ call.name # "disabled" /\ call.invoked # <<>>

C30_Expected(i) == ToolResult(call.invoked[i], call.outs[i] = "ok",
                              IF call.outs[i] = "ok" THEN ""
                              ELSE IF call.outs[i] = "timeout" THEN "timeout" ELSE "error",
                              FALSE)

C30_Reported ==
    /\ call.ret.kind = "resp"
    /\ ~call.ret.error
    /\ call.ret.tools = call.invoked
    /\ call.ret.tools_executed = Len(call.invoked)
    /\ \A i \in 1..Len(call.invoked) :
         Count(call.ret.content, C30_Expected(i))
         = Cardinality({j \in 1..Len(call.invoked) : C30_Expected(j) = C30_Expected(i)})

C31_BoundUnderInterleaving ==
    Cardinality(DOMAIN instances) <= max_instances

(* C32: when two start_instance calls for the same name overlap, at most   *)
(* one engine is created and initialized for that name, and an engine      *)
(* stored in the running set is never overwritten by another engine        *)
(* without having been stopped.                                            *)
C32_OneEnginePerName == \A t, u \in tasks : t.name = u.name => t = u

C32_Stores(t) ==
    /\ t \notin tasks'
    /\ call'.op = "start_instance"
    /\ call'.ret.status = "True"
    /\ call'.constructed = 1

C32_NotOverwritten ==
    \A t \in tasks : C32_Stores(t) => t.name \notin DOMAIN instances

C32_SingleStart == [](C32_OneEnginePerName) /\ [][C32_NotOverwritten]_vars

(* C33: the flush of the queue that _on_open performs always terminates,   *)
(* also when the proxy is marked not connected (by disconnect on the       *)
(* caller's thread) while the flush is in progress and send appends again  *)
(* to the list being iterated.                                             *)
C33_FlushTerminates == Flushing ~> ~Flushing

(* C34: a proxy has at most one live connection and thread at any time:    *)
(* connect called while a connection is open or still opening does not     *)
(* leave the earlier connection running with nothing referring to it.      *)
C34_OneLiveConnection ==
    \A k \in 1..Len(conns) : Live(conns[k]) => k = proxy.ws

(* C35: is_connected is true only while the connection the proxy refers to *)
(* is open, and an open or close callback that arrives from a connection   *)
(* the proxy has closed or replaced does not change is_connected.          *)
C35_ConnectedMeansOpen ==
    proxy.is_connected => (proxy.ws # 0 /\ conns[proxy.ws] = "open")

C35_LateCallback(k) ==
    /\ Len(conns') = Len(conns)
    /\ conns'[k] # conns[k]
    /\ call'.op \in {"_on_open", "_on_close"}
    /\ (k # proxy.ws \/ conns[k] = "closing")

C35_LateCallbackIgnored ==
    \A k \in 1..Len(conns) : C35_LateCallback(k) => proxy'.is_connected = proxy.is_connected

C35_StatusFollowsCurrent == [](C35_ConnectedMeansOpen) /\ [][C35_LateCallbackIgnored]_vars

(* C36: every plugin that process_message invokes is initialized and not   *)
(* cleaned up: in a session started after an earlier stop_session on the   *)
(* same engine, each plugin has been initialized again after the cleanup   *)
(* that stop_session ran on it.                                            *)
C36_InvokedNotCleanedUp ==
    Processed => \A k \in 1..Len(call.invoked) : call.invoked[k] \notin cleaned_up


(***************************************************************************)
(* process_message taken in its two parts (SpecTurn): up to                *)
(* `await self._process_through_plugins(message)` and from there on.       *)
(* While the call is suspended in the pipeline, start_session and          *)
(* stop_session of other requests run on the same engine: the handlers of  *)
(* src/api/app.py reach it through the one InstanceManager, with no lock.  *)
(* The second part reads self.session_state again, and does not look at    *)
(* the active flag again.                                                  *)
(***************************************************************************)

(* process_message up to the await: the active check and the user entry.   *)
process_message_begin(e, content) ==
    IF ~SessionActive(e)
    THEN [e |-> e, ret |-> "error"]
    ELSE [e |-> [e EXCEPT !.session_state.messages = Append(@, UserEntry(content))],
          ret |-> "await"]

(* process_message from the await on: the pipeline has run over the        *)
(* plugins; the assistant entry and the counters go to self.session_state  *)
(* as it is now.                                                           *)
process_message_resume(e, outs) ==
    LET run == _process_through_plugins(e.plugins, outs)
        e2 == IF Truthy(run.response)
              THEN [e EXCEPT !.session_state.messages =
                                  Append(@, AssistantEntry(run.response))]
              ELSE e
        e3 == [e2 EXCEPT !.session_state.metrics = CountMessage(@)]
    IN  [e |-> e3,
         ret |-> Result("ok", "response", "", "None", NoMetrics, run.response),
         invoked |-> run.invoked]

(* The suspended call: started is the start_time of the session that got   *)
(* the user entry (start_session reads the clock, which moves on with each *)
(* call, so it tells the sessions of one engine apart).                    *)
TurnTask(started) == [op |-> "process_message", started |-> started]

Suspended == \E t \in tasks : t.op = "process_message"

TurnBegin ==
    /\ ~Suspended
    /\ SessionActive(engine) => Len(engine.session_state.messages) + 2 <= MaxHistory
    /\ LET r == process_message_begin(engine, "hello")
       IN  /\ engine' = r.e
           /\ IF r.ret = "await"
              THEN /\ tasks' = tasks \cup {TurnTask(engine.session_state.start_time)}
                   /\ UNCHANGED call
              ELSE /\ call' = EngineCall("process_message", <<>>,
                                         Error("No active session"), <<>>, <<>>)
                   /\ UNCHANGED tasks
    /\ UNCHANGED <<managerVars, now, proxyVars, conns, cleaned_up>>

TurnResume ==
    /\ \E t \in tasks, outs \in OutsFrom(engine.plugins, 1) :
         /\ t.op = "process_message"
         /\ LET r == process_message_resume(engine, outs)
            IN  /\ engine' = r.e
                /\ call' = EngineCall("process_message", outs, r.ret, r.invoked, <<>>)
         /\ tasks' = tasks \ {t}
    /\ UNCHANGED <<managerVars, now, proxyVars, conns, cleaned_up>>

(* The engine is one that the manager of the API made for an instance.     *)
InitTurn ==
    /\ max_instances = MaxCapacity
    /\ instances = EmptyDict
    /\ instance_metadata = EmptyDict
    /\ now = 1
    /\ call = NoCall
    /\ engine \in {create_avatar(InstanceConfig(n)) : n \in Names}
    /\ proxy = NewProxy
    /\ link = NoLink
    /\ sender = Idle
    /\ tasks = NoTasks
    /\ conns = NoConns
    /\ cleaned_up = {}

NextTurn ==
    \/ EngineStartSession
    \/ EngineStopSession
    \/ TurnBegin
    \/ TurnResume

SpecTurn == InitTurn /\ [][NextTurn]_vars

(* C37: when process_message resumes after the plugin pipeline, it adds a  *)
(* history entry or increments a counter only if the session that received *)
(* the user entry is still the engine's session and is still active: it    *)
(* writes nothing into a stopped session, and nothing into a session       *)
(* started while it was suspended.                                         *)
C37_Resumes(t) == t \in tasks /\ t.op = "process_message" /\ tasks' = tasks \ {t}

C37_Writes == engine'.session_state # engine.session_state

C37_ResumeInOwnSession ==
    \A t \in tasks :
        (C37_Resumes(t) /\ C37_Writes) =>
            /\ SessionActive(engine)
            /\ engine.session_state.start_time = t.started

C37_NoLateWrite == [][C37_ResumeInOwnSession]_vars

C37_Witness ==
    /\ call.op = "process_message"
    /\ call.ret.kind = "ok"
    /\ ~SessionActive(engine)
    /\ Len(engine.session_state.messages) = 2


(* C38: disconnect, a connection's close and a connect that does not open  *)
(* leave the outbound queue as it is (C38_QueueKept), and the step in      *)
(* which the connection opens transmits the queued messages, in the        *)
(* queue's order (C38_SentAtOpen).                                         *)
C38_Closes ==
    \/ call'.op \in {"disconnect", "_on_close"}
    \/ call'.op = "connect" /\ call'.name # "open"

C38_QueueKept == C38_Closes => proxy'.message_queue = proxy.message_queue

C38_Opens == link # "open" /\ link' = "open"

C38_SentAtOpen == C38_Opens => proxy'.wire = proxy.wire \o proxy.message_queue

C38_FrameOnly == [][C38_QueueKept]_vars

C38_QueueSurvivesUntilOpen == [][C38_QueueKept /\ C38_SentAtOpen]_vars


(* C39: after any sequence of start_instance, stop_instance,               *)
(* restart_instance and shutdown_all calls, a name is in the running set   *)
(* if and only if it has a metadata entry whose status is 'running'; a     *)
(* name whose stop has succeeded has status 'stopped' and is not in the    *)
(* running set.                                                            *)
C39_StatusRunning(n) ==
    n \in DOMAIN instance_metadata /\ instance_metadata[n].status = "running"

C39_StatusStopped(n) ==
    n \in DOMAIN instance_metadata /\ instance_metadata[n].status = "stopped"

C39_Stopped(n) ==
    call.op = "stop_instance" /\ call.name = n /\ call.ret = Bool(TRUE)

C39_RunningIffStatusRunning ==
    \A n \in Names :
        /\ n \in DOMAIN instances <=> C39_StatusRunning(n)
        /\ C39_Stopped(n) => (C39_StatusStopped(n) /\ n \notin DOMAIN instances)

C39_Witness ==
    \E n, other \in Names :
        /\ C39_Stopped(n)
        /\ C39_StatusStopped(n)
        /\ other \in DOMAIN instances
        /\ C39_StatusRunning(other)

============================================================================
